---------------------------- MODULE Spec2Model ----------------------------
(***************************************************************************)
(* Model of the segment-replacement engine of ZhoConvertPyQtRs             *)
(* (opencc_purepy/core.py and its helpers merge_dicts.py and               *)
(* starter_index.py, with the constructor of opencc_py/core.py).           *)
(*                                                                         *)
(* Conventions.  A string is a sequence of characters; a character is a    *)
(* TLA+ string naming one Unicode scalar ("a", ",", "LDQ" for U+201C ...). *)
(* Positions, ranges and lengths are 0-based / half-open as in Python, so  *)
(* text[s:e] is SubSeq(text, s + 1, e).  A Python dict is a function whose *)
(* DOMAIN is its key set.  A 64-bit mask is the set of its set bit         *)
(* positions (bit b <=> b \in mask), because 2^63 does not fit a TLC       *)
(* integer; |, & and bit_length are translated accordingly.  None is the   *)
(* string "None".                                                          *)
(***************************************************************************)
EXTENDS Integers, Sequences, FiniteSets, TLC

---------------------------------------------------------------------------
(* Bounds of the model                                                     *)

MaxTextLen == 3
MaxDictSize == 2
MaxParTextLen == 5
MaxCpu == 5
MaxCachedConfigs == 1

---------------------------------------------------------------------------
(* Generic helpers                                                         *)

None == "None"

Min2(a, b) == IF a <= b THEN a ELSE b
Max2(a, b) == IF a >= b THEN a ELSE b
Min3(a, b, c) == Min2(a, Min2(b, c))

SetMax(S) == IF S = {} THEN 0 ELSE CHOOSE x \in S : \A y \in S : y <= x

\* text[s:e]
Slice(text, s, e) == SubSeq(text, s + 1, e)

\* "".join(parts); the list is halved so that the evaluation depth is
\* logarithmic in its length
RECURSIVE Join(_)
Join(parts) ==
    IF Len(parts) = 0 THEN <<>>
    ELSE IF Len(parts) = 1 THEN parts[1]
    ELSE LET mid == Len(parts) \div 2
         IN  Join(SubSeq(parts, 1, mid)) \o Join(SubSeq(parts, mid + 1, Len(parts)))

EmptyDict == <<>>

\* all strings over alphabet A of length 0..n
RECURSIVE StringsUpTo(_, _)
StringsUpTo(A, n) ==
    IF n = 0 THEN {<<>>}
    ELSE LET shorter == StringsUpTo(A, n - 1)
         IN  shorter \cup {Append(s, c) : s \in {t \in shorter : Len(t) = n - 1}, c \in A}

---------------------------------------------------------------------------
(* Characters                                                              *)

\* the model's characters and their code points (ord)
Ord == [c \in {"a", "b", "c", "d", "e", "x", "y", ",", "LDQ", "RDQ", "LSQ", "RSQ",
               "LCB", "RCB", "LWCB", "RWCB", "U20000",
               "U4E00", "U6C49", "U6F22", "U7740", "U8457"} |->
          CASE c = "a" -> 97
            [] c = "b" -> 98
            [] c = "c" -> 99
            [] c = "d" -> 100
            [] c = "e" -> 101
            [] c = "x" -> 120
            [] c = "y" -> 121
            [] c = "," -> 44
            [] c = "LDQ" -> 8220
            [] c = "RDQ" -> 8221
            [] c = "LSQ" -> 8216
            [] c = "RSQ" -> 8217
            [] c = "LCB" -> 12300
            [] c = "RCB" -> 12301
            [] c = "LWCB" -> 12302
            [] c = "RWCB" -> 12303
            [] c = "U20000" -> 131072
            [] c = "U4E00" -> 19968
            [] c = "U6C49" -> 27721
            [] c = "U6F22" -> 28450
            [] c = "U7740" -> 30528
            [] c = "U8457" -> 33879]

Chars == DOMAIN Ord

\* core.py DELIMITERS, restricted to the model's characters
DELIMITERS == {",", "LDQ", "RDQ", "LSQ", "RSQ", "LCB", "RCB", "LWCB", "RWCB"}

PUNCT_S2T_MAP == [c \in {"LDQ", "RDQ", "LSQ", "RSQ"} |->
                    CASE c = "LDQ" -> "LCB"
                      [] c = "RDQ" -> "RCB"
                      [] c = "LSQ" -> "LWCB"
                      [] c = "RSQ" -> "RWCB"]

PUNCT_T2S_MAP == [c \in {"LCB", "RCB", "LWCB", "RWCB"} |->
                    CASE c = "LCB" -> "LDQ"
                      [] c = "RCB" -> "RDQ"
                      [] c = "LWCB" -> "LSQ"
                      [] c = "RWCB" -> "RSQ"]

\* str.translate(punct_map)
translate(text, punct_map) ==
    [j \in 1..Len(text) |->
        IF text[j] \in DOMAIN punct_map THEN punct_map[text[j]] ELSE text[j]]

---------------------------------------------------------------------------
(* merge_dicts.py                                                          *)

\* merged.update(d): the entries of d overwrite those of merged
DictUpdate(merged, d) == d @@ merged

RECURSIVE merge_in_precedence(_)
merge_in_precedence(dicts) ==
    IF Len(dicts) = 0 THEN EmptyDict
    ELSE DictUpdate(merge_in_precedence(SubSeq(dicts, 1, Len(dicts) - 1)),
                    dicts[Len(dicts)])

---------------------------------------------------------------------------
(* starter_index.py                                                        *)

\* width of a mask / largest length the index can hold
MASK_BITS == 64
BMP_MAX == 65535

BmpCodepoints == {Ord[c] : c \in Chars} \cap (0..BMP_MAX)

\* StarterIndex.__init__
StarterIndexNew(global_cap) ==
    [bmp_mask    |-> [cp \in BmpCodepoints |-> {}],
     bmp_cap     |-> [cp \in BmpCodepoints |-> 0],
     astral_mask |-> <<>>,
     astral_cap  |-> <<>>,
     global_cap  |-> Min2(Max2(1, global_cap), MASK_BITS)]

\* StarterIndex._bit: 1 << (L - 1)
Bit(L) == {L - 1}

DictGet(d, k, default) == IF k \in DOMAIN d THEN d[k] ELSE default

\* _mark with the guard 1 <= L <= 64 in place of 1 <= L <= self.global_cap
MarkUpToMaskBits(idx, cp, L) ==
    IF ~(1 <= L /\ L <= MASK_BITS) THEN idx
    ELSE IF 0 <= cp /\ cp <= BMP_MAX
         THEN [idx EXCEPT !.bmp_mask[cp] = @ \cup Bit(L),
                          !.bmp_cap[cp] = IF L > @ THEN L ELSE @]
         ELSE [idx EXCEPT
                 !.astral_mask = (cp :> (DictGet(idx.astral_mask, cp, {}) \cup Bit(L))) @@ @,
                 !.astral_cap = IF L > DictGet(idx.astral_cap, cp, 0)
                                THEN (cp :> L) @@ @ ELSE @]

\* StarterIndex._mark
Mark(idx, cp, L) ==
    IF ~(1 <= L /\ L <= idx.global_cap) THEN idx
    ELSE IF 0 <= cp /\ cp <= BMP_MAX
         THEN [idx EXCEPT !.bmp_mask[cp] = @ \cup Bit(L),
                          !.bmp_cap[cp] = IF L > @ THEN L ELSE @]
         ELSE [idx EXCEPT
                 !.astral_mask = (cp :> (DictGet(idx.astral_mask, cp, {}) \cup Bit(L))) @@ @,
                 !.astral_cap = IF L > DictGet(idx.astral_cap, cp, 0)
                                THEN (cp :> L) @@ @ ELSE @]

\* for k in d.keys(): if not k: continue; idx._mark(ord(k[0]), len(k))
RECURSIVE MarkKeys(_, _)
MarkKeys(idx, keys) ==
    IF keys = {} THEN idx
    ELSE LET k == CHOOSE x \in keys : TRUE
         IN  MarkKeys(IF Len(k) = 0 THEN idx ELSE Mark(idx, Ord[k[1]], Len(k)),
                      keys \ {k})

RECURSIVE MarkDicts(_, _)
MarkDicts(idx, dicts) ==
    IF Len(dicts) = 0 THEN idx
    ELSE MarkDicts(MarkKeys(idx, DOMAIN Head(dicts)), Tail(dicts))

\* StarterIndex.build
StarterIndexBuild(dicts, global_cap) ==
    MarkDicts(StarterIndexNew(Min2(global_cap, MASK_BITS)), dicts)

\* StarterIndex.get_mask_cap
get_mask_cap(idx, cp) ==
    IF 0 <= cp /\ cp <= BMP_MAX
    THEN <<idx.bmp_mask[cp], idx.bmp_cap[cp]>>
    ELSE <<DictGet(idx.astral_mask, cp, {}), DictGet(idx.astral_cap, cp, 0)>>

---------------------------------------------------------------------------
(* core.py: the scanners.  Each scanner is modelled by the list of parts   *)
(* it appends to its output list: part [i, L, hit, s] says that at source  *)
(* position i the scanner consumed L characters and appended s, as a       *)
(* dictionary hit or as a copy.  The returned string is the join of the s. *)

\* the fast skip without its single-delimiter case: `if not segment`
IsEmptySegment(segment) == Len(segment) = 0

IsTrivialSegment(segment) ==
    Len(segment) = 0 \/ (Len(segment) = 1 /\ segment[1] \in DELIMITERS)

\* `if not segment or (len(segment) == 1 and segment in DELIMITERS): return segment`
TrivialParts(segment) ==
    IF Len(segment) = 0 THEN <<>>
    ELSE <<[i |-> 0, L |-> Len(segment), hit |-> FALSE, s |-> segment]>>

PartsText(parts) == Join([j \in 1..Len(parts) |-> parts[j].s])

\* the mask walk with the candidates tried shortest first
RECURSIVE MaskWalkShortestFirst(_, _, _, _)
MaskWalkShortestFirst(seg, i, m, merged_map) ==
    IF m = {} THEN [matched |-> FALSE, L |-> 0]
    ELSE LET L == (CHOOSE b \in m : \A b2 \in m : b <= b2) + 1
         IN  IF Slice(seg, i, i + L) \in DOMAIN merged_map
             THEN [matched |-> TRUE, L |-> L]
             ELSE MaskWalkShortestFirst(seg, i, m \ {L - 1}, merged_map)

\* convert_segment_indexed, the `while m:` loop: longest candidate first
RECURSIVE MaskWalk(_, _, _, _)
MaskWalk(seg, i, m, merged_map) ==
    IF m = {} THEN [matched |-> FALSE, L |-> 0]
    ELSE LET L == SetMax(m) + 1
             s == Slice(seg, i, i + L)
         IN  IF s \in DOMAIN merged_map
             THEN [matched |-> TRUE, L |-> L]
             ELSE MaskWalk(seg, i, {b \in m : b < L - 1}, merged_map)

\* the loop body with a matched replacement passed through the map once
\* more, character by character, before it is appended
IndexedStepRescanning(seg, merged_map, starter_index, global_cap, i) ==
    LET copy == [i |-> i, L |-> 1, hit |-> FALSE, s |-> <<seg[i + 1]>>]
        Again(r) == Join([j \in 1..Len(r) |->
                            IF <<r[j]>> \in DOMAIN merged_map
                            THEN merged_map[<<r[j]>>] ELSE <<r[j]>>])
        Emit(w) == IF w.matched
                   THEN [i |-> i, L |-> w.L, hit |-> TRUE,
                         s |-> Again(merged_map[Slice(seg, i, i + w.L)])]
                   ELSE copy
        Walk(mask, cap_here) == Emit(MaskWalk(seg, i, {b \in mask : b < cap_here}, merged_map))
        At(mask, cap) == IF mask = {} \/ cap = 0
                         THEN copy
                         ELSE Walk(mask, Min3(Len(seg) - i, cap, global_cap))
        Lookup(mc) == At(mc[1], mc[2])
    IN  Lookup(get_mask_cap(starter_index, Ord[seg[i + 1]]))

\* convert_segment_indexed, the body of the `while i < n:` loop at position i:
\* the part it appends; i then advances by the part's L
IndexedStep(seg, merged_map, starter_index, global_cap, i) ==
    LET copy == [i |-> i, L |-> 1, hit |-> FALSE, s |-> <<seg[i + 1]>>]
        Emit(w) == IF w.matched
                   THEN [i |-> i, L |-> w.L, hit |-> TRUE,
                         s |-> merged_map[Slice(seg, i, i + w.L)]]
                   ELSE copy
        Walk(mask, cap_here) == Emit(MaskWalk(seg, i, {b \in mask : b < cap_here}, merged_map))
        At(mask, cap) == IF mask = {} \/ cap = 0
                         THEN copy
                         ELSE Walk(mask, Min3(Len(seg) - i, cap, global_cap))
        Lookup(mc) == At(mc[1], mc[2])
    IN  Lookup(get_mask_cap(starter_index, Ord[seg[i + 1]]))

\* convert_segment_indexed, the `while i < n:` loop entered at position i and
\* run until i leaves the window lo..hi-1 (lo <= i); the window is halved so
\* that the evaluation depth is logarithmic in the segment length
RECURSIVE IndexedLoop(_, _, _, _, _, _, _)
IndexedLoop(seg, merged_map, starter_index, global_cap, i, lo, hi) ==
    IF i >= hi THEN [parts |-> <<>>, i |-> i]
    ELSE IF hi - lo = 1
    THEN LET Advance(part) == [parts |-> <<part>>, i |-> i + part.L]
         IN  Advance(IndexedStep(seg, merged_map, starter_index, global_cap, i))
    ELSE LET mid == (lo + hi) \div 2
             Both(first, second) == [parts |-> first.parts \o second.parts, i |-> second.i]
             Then(first) == Both(first, IndexedLoop(seg, merged_map, starter_index,
                                                    global_cap, first.i, mid, hi))
         IN  Then(IndexedLoop(seg, merged_map, starter_index, global_cap, i, lo, mid))

convert_segment_indexed_parts(segment, merged_map, starter_index, global_cap) ==
    IF IsTrivialSegment(segment) THEN TrivialParts(segment)
    ELSE IndexedLoop(segment, merged_map, starter_index, global_cap, 0, 0, Len(segment)).parts

convert_segment_indexed(segment, merged_map, starter_index, global_cap) ==
    PartsText(convert_segment_indexed_parts(segment, merged_map, starter_index, global_cap))

\* convert_segment, `for dict_data, max_len in dictionaries:` the first slot
\* that is long enough and holds the word
RECURSIVE LegacyProbe(_, _, _, _)
LegacyProbe(word, length, dictionaries, j) ==
    IF j > Len(dictionaries) THEN [found |-> FALSE, match |-> <<>>]
    ELSE LET dict_data == dictionaries[j][1].map
             max_len == dictionaries[j][2]
         IN  IF max_len < length
             THEN LegacyProbe(word, length, dictionaries, j + 1)
             ELSE IF word \in DOMAIN dict_data
                  THEN [found |-> TRUE, match |-> dict_data[word]]
                  ELSE LegacyProbe(word, length, dictionaries, j + 1)

\* `if best_match: break` -- the truth value of the matched replacement
LegacyBreak(best) == best.found /\ Len(best.match) > 0

\* convert_segment, `for length in range(min(max_word_length, remaining), 0, -1):`
RECURSIVE LegacyLengths(_, _, _, _, _)
LegacyLengths(segment, i, length, dictionaries, best) ==
    IF length < 1 THEN best
    ELSE LET Continue(best2) ==
                 IF LegacyBreak(best2) THEN best2
                 ELSE LegacyLengths(segment, i, length - 1, dictionaries, best2)
             Probed(p) == Continue(IF p.found
                                   THEN [found |-> TRUE, match |-> p.match, length |-> length]
                                   ELSE best)
         IN  Probed(LegacyProbe(Slice(segment, i, i + length), length, dictionaries, 1))

\* convert_segment, the body of the `while i < n:` loop at position i
\* the step of convert_segment without `i += 1` after a copied character
LegacyStepStuck(segment, dictionaries, max_word_length, i) ==
    LET remaining == Len(segment) - i
        Emit(best) == IF best.found
                      THEN [i |-> i, L |-> best.length, hit |-> TRUE, s |-> best.match]
                      ELSE [i |-> i, L |-> 0, hit |-> FALSE, s |-> <<segment[i + 1]>>]
    IN  Emit(LegacyLengths(segment, i, Min2(max_word_length, remaining), dictionaries,
                           [found |-> FALSE, match |-> <<>>, length |-> 0]))

LegacyStep(segment, dictionaries, max_word_length, i) ==
    LET remaining == Len(segment) - i
        Emit(best) == IF best.found
                      THEN [i |-> i, L |-> best.length, hit |-> TRUE, s |-> best.match]
                      ELSE [i |-> i, L |-> 1, hit |-> FALSE, s |-> <<segment[i + 1]>>]
    IN  Emit(LegacyLengths(segment, i, Min2(max_word_length, remaining), dictionaries,
                           [found |-> FALSE, match |-> <<>>, length |-> 0]))

\* convert_segment, the `while i < n:` loop entered at position i and run
\* until i leaves the window lo..hi-1 (lo <= i)
RECURSIVE LegacyLoop(_, _, _, _, _, _)
LegacyLoop(segment, dictionaries, max_word_length, i, lo, hi) ==
    IF i >= hi THEN [parts |-> <<>>, i |-> i]
    ELSE IF hi - lo = 1
    THEN LET Advance(part) == [parts |-> <<part>>, i |-> i + part.L]
         IN  Advance(LegacyStep(segment, dictionaries, max_word_length, i))
    ELSE LET mid == (lo + hi) \div 2
             Both(first, second) == [parts |-> first.parts \o second.parts, i |-> second.i]
             Then(first) == Both(first, LegacyLoop(segment, dictionaries, max_word_length,
                                                   first.i, mid, hi))
         IN  Then(LegacyLoop(segment, dictionaries, max_word_length, i, lo, mid))

convert_segment_parts(segment, dictionaries, max_word_length) ==
    IF IsTrivialSegment(segment) THEN TrivialParts(segment)
    ELSE LegacyLoop(segment, dictionaries, max_word_length, 0, 0, Len(segment)).parts

convert_segment(segment, dictionaries, max_word_length) ==
    PartsText(convert_segment_parts(segment, dictionaries, max_word_length))

---------------------------------------------------------------------------
(* core.py: the segmenter and the range grouping                           *)

\* the split step without the `if delim_start > start` test
SplitStepUnguarded(inclusive, start, ranges, delim_start, delim_end) ==
    IF inclusive
    THEN Append(ranges, <<start, delim_end>>)
    ELSE ranges \o << <<start, delim_start>>, <<delim_start, delim_end>> >>

\* one step of `for match in self.delimiter_regex.finditer(text):`; the
\* regex is a character class, so every match is one delimiter character
SplitStep(inclusive, start, ranges, delim_start, delim_end) ==
    IF inclusive
    THEN Append(ranges, <<start, delim_end>>)
    ELSE (IF delim_start > start THEN Append(ranges, <<start, delim_start>>) ELSE ranges)
         \o << <<delim_start, delim_end>> >>

\* the matches of a regex that takes a whole run of delimiters at once, each
\* reported by the position of the run's last character
FindIterRuns(text) ==
    LET D == {p \in 0..(Len(text) - 1) :
                 /\ text[p + 1] \in DELIMITERS
                 /\ (p + 1 = Len(text) \/ text[p + 2] \notin DELIMITERS)}
    IN  [k \in 1..Cardinality(D) |->
            CHOOSE p \in D : Cardinality({q \in D : q < p}) = k - 1]

\* `self.delimiter_regex.finditer(text)`: the 0-based positions of the
\* delimiter characters, in increasing order
FindIter(text) ==
    LET D == {p \in 0..(Len(text) - 1) : text[p + 1] \in DELIMITERS}
    IN  [k \in 1..Cardinality(D) |->
            CHOOSE p \in D : Cardinality({q \in D : q < p}) = k - 1]

\* `for match in self.delimiter_regex.finditer(text):` from the k-th match on
RECURSIVE SplitLoop(_, _, _, _, _)
SplitLoop(matches, inclusive, k, start, ranges) ==
    IF k > Len(matches) THEN [start |-> start, ranges |-> ranges]
    ELSE SplitLoop(matches, inclusive, k + 1, matches[k] + 1,
                   SplitStep(inclusive, start, ranges, matches[k], matches[k] + 1))

get_split_ranges(text, inclusive) ==
    LET Tail_(r) == IF r.start < Len(text)
                    THEN Append(r.ranges, <<r.start, Len(text)>>) ELSE r.ranges
    IN  Tail_(SplitLoop(FindIter(text), inclusive, 1, 0, <<>>))

\* chunk_ranges with chunk_size = len(ranges) // group_count, rounded down
chunk_ranges_floor(ranges, group_count) ==
    LET chunk_size == Max2(1, Len(ranges) \div group_count)
        n_groups == IF Len(ranges) = 0 THEN 0
                    ELSE (Len(ranges) + chunk_size - 1) \div chunk_size
    IN  [g \in 1..n_groups |->
            SubSeq(ranges, (g - 1) * chunk_size + 1, Min2(g * chunk_size, Len(ranges)))]

\* chunk_ranges
chunk_ranges(ranges, group_count) ==
    LET chunk_size == (Len(ranges) + group_count - 1) \div group_count
        n_groups == IF Len(ranges) = 0 THEN 0
                    ELSE (Len(ranges) + chunk_size - 1) \div chunk_size
    IN  [g \in 1..n_groups |->
            SubSeq(ranges, (g - 1) * chunk_size + 1, Min2(g * chunk_size, Len(ranges)))]

---------------------------------------------------------------------------
(* State                                                                   *)

VARIABLES
    config,              \* OpenCC.config
    last_error,          \* OpenCC._last_error
    dictionary,          \* OpenCC.dictionary: slot name -> <<dict object, max length>>
    dict_starter_index,  \* what dictionary.try_get_starter_index() returns
    config_cache,        \* OpenCC._config_cache
    fp_cache,            \* OpenCC._fp_cache
    merged_cache,        \* OpenCC._merged_cache
    starter_idx_cache,   \* OpenCC._starter_idx_cache
    fast_cache,          \* OpenCC._fast_cache
    cpu_count,           \* multiprocessing.cpu_count()
    py_conv,             \* an opencc_py.OpenCC built with the same arguments
    call,                \* the last call made on the engine and its arguments
    ret,                 \* what that call returned
    calls,               \* the scanner calls made during that call, in order
    pool,                \* the multiprocessing pool of a parallel segment_replace
    scan_text,           \* the text a scanner specification works on
    refs_obj,            \* a DictRefs object built through the DictRefs API
    n_calls,             \* number of calls made so far
    threads,             \* the frames of the convert calls running on threads
    heap                 \* the DictRefs objects and their _max_lengths lists

vars == <<config, last_error, dictionary, dict_starter_index, config_cache, fp_cache,
          merged_cache, starter_idx_cache, fast_cache, cpu_count, py_conv, call, ret,
          calls, pool, scan_text, refs_obj, n_calls, threads, heap>>

converter_vars == <<config, last_error, config_cache>>
segment_caches == <<fp_cache, merged_cache, starter_idx_cache, fast_cache>>
environment == <<dictionary, dict_starter_index, cpu_count, py_conv, scan_text, refs_obj,
                 threads, heap>>

\* no call in progress on a thread, no shared DictRefs object
NoThreads == <<>>
NoHeap == [refs |-> <<>>, lists |-> <<>>]

---------------------------------------------------------------------------
(* dictionary_lib.py: the dictionary bundle                                *)

SlotNames == {"st_characters", "st_phrases", "ts_characters", "ts_phrases",
              "tw_phrases", "tw_phrases_rev", "tw_variants", "tw_variants_rev",
              "tw_variants_rev_phrases", "hk_variants", "hk_variants_rev",
              "hk_variants_rev_phrases", "jps_characters", "jps_phrases",
              "jp_variants", "jp_variants_rev"}

\* a dict object: its identity (what id() distinguishes) and its content
DictObject(name, map) == [id |-> name, map |-> map]

\* load_dictionary_maxlength: max_length starts at 1 and grows to the longest key
LoadedMaxLength(map) == Max2(1, SetMax({Len(k) : k \in DOMAIN map}))

LoadedSlot(name, map) == <<DictObject(name, map), LoadedMaxLength(map)>>

\* the object None where a dict is expected: DictionaryMaxlength._as_tuple
\* takes value["map"] of the object form as it is, so a bundle whose slot
\* reads {"map": null, "maxlength": n} loads the slot (None, n)
NoneDict == DictObject(None, EmptyDict)

IsNoneDict(d) == d.id = None

\* DictionaryMaxlength.__init__: every slot is ({}, 0)
DictionaryMaxlengthDefault == [name \in SlotNames |-> <<DictObject(name, EmptyDict), 0>>]

\* the "no index" value of the optional starter index (a StarterIndex has
\* global_cap >= 1)
NoIndex == [bmp_mask |-> <<>>, bmp_cap |-> <<>>, astral_mask |-> <<>>,
            astral_cap |-> <<>>, global_cap |-> 0]

---------------------------------------------------------------------------
(* core.py: OpenCC.segment_replace                                         *)

\* thresholds of the parallel path, `len(ranges) > 1_000 and total_length >=
\* 1_000_000`, scaled down so that the model's texts cross them
PARALLEL_MIN_RANGES == 2
PARALLEL_MIN_LENGTH == 4
MAX_GROUPS == 4

\* OpenCC._make_fp
make_fp(d, maxlen) == <<"id", d.id, Cardinality(DOMAIN d.map), maxlen>>

\* OpenCC._dict_fp: the fingerprint and the updated _fp_cache
dict_fp(fpc, dict_tuple) ==
    LET d == dict_tuple[1]
        max_len == dict_tuple[2]
    IN  IF d.id \in DOMAIN fpc
        THEN [fp |-> fpc[d.id], fp_cache |-> fpc]
        ELSE [fp |-> make_fp(d, max_len),
              fp_cache |-> (d.id :> make_fp(d, max_len)) @@ fpc]

\* dict_sig = tuple(self._dict_fp(dict_tuple) for dict_tuple in dictionaries)
RECURSIVE DictSig(_, _, _, _)
DictSig(fpc, dictionaries, j, sig) ==
    IF j > Len(dictionaries) THEN [sig |-> sig, fp_cache |-> fpc]
    ELSE LET Next_(r) == DictSig(r.fp_cache, dictionaries, j + 1, Append(sig, r.fp))
         IN  Next_(dict_fp(fpc, dictionaries[j]))

ActiveDicts(dictionaries) == [j \in 1..Len(dictionaries) |-> dictionaries[j][1].map]

CapFromDicts(dictionaries) == SetMax({dictionaries[j][2] : j \in 1..Len(dictionaries)})

GlobalCap(dictionaries, max_word_length) ==
    LET cap_from_dicts == CapFromDicts(dictionaries)
    IN  IF cap_from_dicts # 0 THEN Min2(max_word_length, cap_from_dicts)
        ELSE max_word_length

\* the prep without the reuse of the bundle's index: always
\* StarterIndex.build(active_dicts, global_cap)
ChooseStarterIndexRebuilding(prebuilt, active_dicts, global_cap) ==
    StarterIndexBuild(active_dicts, global_cap)

\* the prebuilt index of the bundle is reused when its global_cap suffices,
\* otherwise an index is built from the round's dicts
ChooseStarterIndex(prebuilt, active_dicts, global_cap) ==
    LET idx == IF prebuilt # NoIndex /\ prebuilt.global_cap < global_cap
               THEN NoIndex ELSE prebuilt
    IN  IF idx = NoIndex THEN StarterIndexBuild(active_dicts, global_cap) ELSE idx

\* the "fast-path prep" block: the triple in use and the updated caches
FastPrep(C, dictionaries, max_word_length, prebuilt) ==
    LET Store(fpc, dict_sig, fast_key, fast) ==
            [fast |-> fast,
             caches |-> [fp_cache |-> fpc,
                         merged_cache |-> (dict_sig :> fast[1]) @@ C.merged_cache,
                         starter_idx_cache |-> (fast_key :> fast[2]) @@ C.starter_idx_cache,
                         fast_cache |-> (fast_key :> fast) @@ C.fast_cache]]
        Miss(fpc, dict_sig, fast_key, active_dicts, global_cap) ==
            Store(fpc, dict_sig, fast_key,
                  <<IF dict_sig \in DOMAIN C.merged_cache
                    THEN C.merged_cache[dict_sig]
                    ELSE merge_in_precedence(active_dicts),
                    IF fast_key \in DOMAIN C.starter_idx_cache
                    THEN C.starter_idx_cache[fast_key]
                    ELSE ChooseStarterIndex(prebuilt, active_dicts, global_cap),
                    global_cap>>)
        Keyed(ds, fast_key, active_dicts, global_cap) ==
            IF fast_key \in DOMAIN C.fast_cache
            THEN [fast |-> C.fast_cache[fast_key],
                  caches |-> [C EXCEPT !.fp_cache = ds.fp_cache]]
            ELSE Miss(ds.fp_cache, ds.sig, fast_key, active_dicts, global_cap)
        Prep(ds, global_cap) ==
            Keyed(ds, <<ds.sig, global_cap>>, ActiveDicts(dictionaries), global_cap)
    IN  Prep(DictSig(C.fp_cache, dictionaries, 1, <<>>),
             GlobalCap(dictionaries, max_word_length))

\* the conversion of one segment on the path segment_replace has chosen
SegmentParts(segment, fast, dictionaries, max_word_length) ==
    IF fast[2] # NoIndex
    THEN convert_segment_indexed_parts(segment, fast[1], fast[2], fast[3])
    ELSE convert_segment_parts(segment, dictionaries, max_word_length)

\* the per-range conversions of a list of ranges, in list order
RangeParts(text, ranges, fast, dictionaries, max_word_length) ==
    [j \in 1..Len(ranges) |->
        [s |-> ranges[j][1], e |-> ranges[j][2],
         parts |-> SegmentParts(Slice(text, ranges[j][1], ranges[j][2]), fast,
                                dictionaries, max_word_length)]]

SegsText(segs) == Join([j \in 1..Len(segs) |-> PartsText(segs[j].parts)])

\* convert_range_group_indexed / convert_range_group: one worker's result
convert_range_group(text, group, fast, dictionaries, max_word_length) ==
    SegsText(RangeParts(text, group, fast, dictionaries, max_word_length))

GroupCount(cpus) == Min2(MAX_GROUPS, Max2(1, cpus))

UseParallel(text, ranges) ==
    Len(ranges) > PARALLEL_MIN_RANGES /\ Len(text) >= PARALLEL_MIN_LENGTH

\* pool.map returns the workers' results in the order of the groups
PoolMapResults(text, groups, fast, dictionaries, max_word_length) ==
    [g \in 1..Len(groups) |->
        convert_range_group(text, groups[g], fast, dictionaries, max_word_length)]

\* a finished task's result put at the first free position of the result list
PoolStoreInCompletionOrder(results, g, value) ==
    LET j == 1 + Cardinality({h \in 1..Len(results) : results[h].done})
    IN  [results EXCEPT ![j] = [done |-> TRUE, value |-> value]]

\* pool.map: the result of the g-th task is the g-th element of the list it
\* returns
PoolStore(results, g, value) ==
    [results EXCEPT ![g] = [done |-> TRUE, value |-> value]]

\* the dictionaries whose fingerprint is taken before _make_fp reaches a
\* None (`len(d)` raises TypeError): all of them if none is None
FingerprintedPrefix(dictionaries) ==
    LET nones == {j \in 1..Len(dictionaries) : IsNoneDict(dictionaries[j][1])}
    IN  IF nones = {} THEN dictionaries
        ELSE SubSeq(dictionaries, 1, (CHOOSE j \in nones : \A h \in nones : j <= h) - 1)

\* OpenCC.segment_replace: the returned text, the caches it leaves, and the
\* parts emitted per range; path "raised" stands for a TypeError leaving the
\* call, with the fingerprints cached so far
segment_replace(text, dictionaries, max_word_length, C, prebuilt, cpus) ==
    IF Len(text) = 0
    THEN [out |-> text, caches |-> C, segs |-> <<>>, path |-> "empty"]
    ELSE IF FingerprintedPrefix(dictionaries) # dictionaries
    THEN [out |-> text,
          caches |-> [C EXCEPT !.fp_cache =
                         DictSig(C.fp_cache, FingerprintedPrefix(dictionaries), 1,
                                 <<>>).fp_cache],
          segs |-> <<>>, path |-> "raised"]
    ELSE LET Emit(prep, ranges, segs) ==
                 IF Len(ranges) = 1 /\ ranges[1] = <<0, Len(text)>>
                 THEN [out |-> PartsText(SegmentParts(text, prep.fast, dictionaries,
                                                      max_word_length)),
                       caches |-> prep.caches, segs |-> segs, path |-> "single"]
                 ELSE IF UseParallel(text, ranges)
                      THEN [out |-> Join(PoolMapResults(text,
                                             chunk_ranges(ranges, GroupCount(cpus)),
                                             prep.fast, dictionaries, max_word_length)),
                            caches |-> prep.caches, segs |-> segs, path |-> "parallel"]
                      ELSE [out |-> SegsText(segs),
                            caches |-> prep.caches, segs |-> segs, path |-> "serial"]
             Split(prep, ranges) ==
                 Emit(prep, ranges,
                      RangeParts(text, ranges, prep.fast, dictionaries, max_word_length))
         IN  Split(FastPrep(C, dictionaries, max_word_length, prebuilt),
                   get_split_ranges(text, TRUE))

Caches == [fp_cache |-> fp_cache, merged_cache |-> merged_cache,
           starter_idx_cache |-> starter_idx_cache, fast_cache |-> fast_cache]

EmptyCaches == [fp_cache |-> <<>>, merged_cache |-> <<>>,
                starter_idx_cache |-> <<>>, fast_cache |-> <<>>]

StoreCaches(C) ==
    /\ fp_cache' = C.fp_cache
    /\ merged_cache' = C.merged_cache
    /\ starter_idx_cache' = C.starter_idx_cache
    /\ fast_cache' = C.fast_cache

---------------------------------------------------------------------------
(* core.py / dict_refs.py: DictRefs                                        *)

\* an optional round: None, or a list of slots
NoRound == [none |-> TRUE, slots |-> <<>>]
Round(slots) == [none |-> FALSE, slots |-> slots]

\* the truth value Python gives a round (`if self.round_2:`, `if not r:`)
Truthy(r) == ~r.none /\ Len(r.slots) > 0

\* DictRefs(round_1).with_round_2(round_2).with_round_3(round_3);
\* _max_lengths = None is the empty sequence
DictRefs(round_1, round_2, round_3) ==
    [round_1 |-> round_1, round_2 |-> round_2, round_3 |-> round_3, max_lengths |-> <<>>]

RoundMaxLength(r) ==
    IF Truthy(r) THEN SetMax({r.slots[j][2] : j \in 1..Len(r.slots)}) ELSE 0

\* DictRefs._get_max_lengths
get_max_lengths(refs) ==
    IF refs.max_lengths = <<>>
    THEN <<RoundMaxLength(refs.round_1), RoundMaxLength(refs.round_2),
           RoundMaxLength(refs.round_3)>>
    ELSE refs.max_lengths

SlotIds(slots) == [j \in 1..Len(slots) |-> slots[j][1].id]

\* one scanner call made by a DictRefs, as the scanner sees it
ScannerCall(k, text, slots, max_len, out) ==
    [round |-> k, text |-> text, slots |-> SlotIds(slots), max_len |-> max_len, out |-> out]

\* every round handed to the scanner only if it is non-empty
CoreRunsRoundNonEmpty(k, r) == Truthy(r)

\* whether round k of core.py's DictRefs is handed to the scanner: round 1
\* always, `if self.round_2:` and `if self.round_3:` for the others
CoreRunsRound(k, r) == IF k = 1 THEN TRUE ELSE Truthy(r)

\* core.py DictRefs.apply_segment_replace, rounds k..3, with segment_replace
\* as the scanner; st is [out, calls, caches, raised]
RECURSIVE CoreApplyFrom(_, _, _, _, _, _)
CoreApplyFrom(k, rounds, max_lengths, st, prebuilt, cpus) ==
    IF k > 3 \/ st.raised THEN st
    ELSE IF ~CoreRunsRound(k, rounds[k])
         THEN CoreApplyFrom(k + 1, rounds, max_lengths, st, prebuilt, cpus)
         ELSE IF rounds[k].none /\ Len(st.out) > 0
              \* the scanner is called and raises TypeError on iterating None
              THEN [st EXCEPT !.raised = TRUE,
                              !.calls = Append(st.calls,
                                            ScannerCall(k, st.out, <<>>, max_lengths[k],
                                                        st.out))]
              ELSE LET Scanned(r) ==
                           CoreApplyFrom(k + 1, rounds, max_lengths,
                               [out |-> r.out,
                                calls |-> Append(st.calls,
                                             ScannerCall(k, st.out, rounds[k].slots,
                                                         max_lengths[k], r.out)),
                                caches |-> r.caches,
                                raised |-> r.path = "raised"],
                               prebuilt, cpus)
                   IN  Scanned(segment_replace(st.out, rounds[k].slots, max_lengths[k],
                                               st.caches, prebuilt, cpus))

apply_segment_replace(refs, input_text, C, prebuilt, cpus) ==
    CoreApplyFrom(1, <<refs.round_1, refs.round_2, refs.round_3>>, get_max_lengths(refs),
                  [out |-> input_text, calls |-> <<>>, caches |-> C, raised |-> FALSE],
                  prebuilt, cpus)

\* dict_refs.py DictRefs._as_slots_and_cap for None and for a list of slots
as_slots_and_cap(r) ==
    IF r.none THEN <<(<<>>), 0>>
    ELSE <<r.slots, SetMax({r.slots[j][2] : j \in 1..Len(r.slots)})>>

\* whether dict_refs.py hands round r to segment_replace
DictRefsRunsRound(r) ==
    LET Usable(sc) == Len(sc[1]) > 0 /\ sc[2] > 0
    IN  Truthy(r) /\ Usable(as_slots_and_cap(r))

\* dict_refs.py DictRefs.apply_segment_replace(text, segment_replace=...)
RECURSIVE DictRefsApplyFrom(_, _, _, _, _)
DictRefsApplyFrom(k, rounds, st, prebuilt, cpus) ==
    IF k > 3 \/ st.raised THEN st
    ELSE IF ~DictRefsRunsRound(rounds[k])
         THEN DictRefsApplyFrom(k + 1, rounds, st, prebuilt, cpus)
         ELSE LET Scanned(sc, r) ==
                      DictRefsApplyFrom(k + 1, rounds,
                          [out |-> r.out,
                           calls |-> Append(st.calls,
                                        ScannerCall(k, st.out, sc[1], sc[2], r.out)),
                           caches |-> r.caches,
                           raised |-> r.path = "raised"],
                          prebuilt, cpus)
                  Scan(sc) == Scanned(sc, segment_replace(st.out, sc[1], sc[2], st.caches,
                                                          prebuilt, cpus))
              IN  Scan(as_slots_and_cap(rounds[k]))

dict_refs_apply_segment_replace(refs, input_text, C, prebuilt, cpus) ==
    DictRefsApplyFrom(1, <<refs.round_1, refs.round_2, refs.round_3>>,
                      [out |-> input_text, calls |-> <<>>, caches |-> C, raised |-> FALSE],
                      prebuilt, cpus)

---------------------------------------------------------------------------
(* core.py: OpenCC                                                         *)

CONFIG_LIST == {"s2t", "t2s", "s2tw", "tw2s", "s2twp", "tw2sp", "s2hk", "hk2s",
                "t2tw", "tw2t", "t2twp", "tw2tp", "t2hk", "hk2t", "t2jp", "jp2t"}

\* OpenCC.__init__ of opencc_purepy: config, _last_error and dictionary;
\* load_ok says whether DictionaryMaxlength.new() returned
OpenCCInit(config_arg, load_ok) ==
    LET cfg == IF config_arg \in CONFIG_LIST THEN config_arg ELSE "s2t"
        err1 == IF config_arg \in CONFIG_LIST THEN None
                ELSE IF config_arg # None /\ config_arg # ""
                     THEN "Invalid config: " \o config_arg
                     ELSE None
    IN  [config |-> cfg,
         last_error |-> IF load_ok THEN err1 ELSE "load failed",
         load_ok |-> load_ok]

\* OpenCC.__init__ of opencc_py
PyOpenCCInit(config_arg, load_ok) ==
    [config |-> IF config_arg \in CONFIG_LIST THEN config_arg ELSE "s2t",
     last_error |-> IF load_ok THEN None ELSE "load failed"]

\* OpenCC.set_config
\* set_config that keeps the tag it was given when the tag is unknown
set_config_keeping(config_arg) ==
    IF config_arg \in CONFIG_LIST
    THEN [config |-> config_arg, last_error |-> last_error]
    ELSE [config |-> config_arg, last_error |-> "Invalid config: " \o config_arg]

\* set_config that resets the recorded error when the tag is valid
set_config_clearing(config_arg) ==
    IF config_arg \in CONFIG_LIST
    THEN [config |-> config_arg, last_error |-> None]
    ELSE [config |-> "s2t", last_error |-> "Invalid config: " \o config_arg]

set_config(config_arg) ==
    IF config_arg \in CONFIG_LIST
    THEN [config |-> config_arg, last_error |-> last_error]
    ELSE [config |-> "s2t", last_error |-> "Invalid config: " \o config_arg]

\* the rounds with the first two slots of jp2t exchanged
DictRefsTableJpSwapped(config_key) ==
    CASE config_key = "s2t" -> << <<"st_phrases", "st_characters">> >>
      [] config_key = "t2s" -> << <<"ts_phrases", "ts_characters">> >>
      [] config_key = "s2tw" -> << <<"st_phrases", "st_characters">>, <<"tw_variants">> >>
      [] config_key = "tw2s" -> << <<"tw_variants_rev_phrases", "tw_variants_rev">>,
                                   <<"ts_phrases", "ts_characters">> >>
      [] config_key = "s2twp" -> << <<"st_phrases", "st_characters">>, <<"tw_phrases">>,
                                    <<"tw_variants">> >>
      [] config_key = "tw2sp" -> << <<"tw_phrases_rev", "tw_variants_rev_phrases",
                                      "tw_variants_rev">>,
                                    <<"ts_phrases", "ts_characters">> >>
      [] config_key = "s2hk" -> << <<"st_phrases", "st_characters">>, <<"hk_variants">> >>
      [] config_key = "hk2s" -> << <<"hk_variants_rev_phrases", "hk_variants_rev">>,
                                   <<"ts_phrases", "ts_characters">> >>
      [] config_key = "t2tw" -> << <<"tw_variants">> >>
      [] config_key = "t2twp" -> << <<"tw_phrases">>, <<"tw_variants">> >>
      [] config_key = "tw2t" -> << <<"tw_variants_rev_phrases", "tw_variants_rev">> >>
      [] config_key = "tw2tp" -> << <<"tw_variants_rev_phrases", "tw_variants_rev">>,
                                    <<"tw_phrases_rev">> >>
      [] config_key = "t2hk" -> << <<"hk_variants">> >>
      [] config_key = "hk2t" -> << <<"hk_variants_rev_phrases", "hk_variants_rev">> >>
      [] config_key = "t2jp" -> << <<"jp_variants">> >>
      [] config_key = "jp2t" -> << <<"jps_characters", "jps_phrases", "jp_variants_rev">> >>

\* the rounds OpenCC._get_dict_refs builds for a config key, as slot names
DictRefsTable(config_key) ==
    CASE config_key = "s2t" -> << <<"st_phrases", "st_characters">> >>
      [] config_key = "t2s" -> << <<"ts_phrases", "ts_characters">> >>
      [] config_key = "s2tw" -> << <<"st_phrases", "st_characters">>, <<"tw_variants">> >>
      [] config_key = "tw2s" -> << <<"tw_variants_rev_phrases", "tw_variants_rev">>,
                                   <<"ts_phrases", "ts_characters">> >>
      [] config_key = "s2twp" -> << <<"st_phrases", "st_characters">>, <<"tw_phrases">>,
                                    <<"tw_variants">> >>
      [] config_key = "tw2sp" -> << <<"tw_phrases_rev", "tw_variants_rev_phrases",
                                      "tw_variants_rev">>,
                                    <<"ts_phrases", "ts_characters">> >>
      [] config_key = "s2hk" -> << <<"st_phrases", "st_characters">>, <<"hk_variants">> >>
      [] config_key = "hk2s" -> << <<"hk_variants_rev_phrases", "hk_variants_rev">>,
                                   <<"ts_phrases", "ts_characters">> >>
      [] config_key = "t2tw" -> << <<"tw_variants">> >>
      [] config_key = "t2twp" -> << <<"tw_phrases">>, <<"tw_variants">> >>
      [] config_key = "tw2t" -> << <<"tw_variants_rev_phrases", "tw_variants_rev">> >>
      [] config_key = "tw2tp" -> << <<"tw_variants_rev_phrases", "tw_variants_rev">>,
                                    <<"tw_phrases_rev">> >>
      [] config_key = "t2hk" -> << <<"hk_variants">> >>
      [] config_key = "hk2t" -> << <<"hk_variants_rev_phrases", "hk_variants_rev">> >>
      [] config_key = "t2jp" -> << <<"jp_variants">> >>
      [] config_key = "jp2t" -> << <<"jps_phrases", "jps_characters", "jp_variants_rev">> >>

SlotsOf(d, names) == [j \in 1..Len(names) |-> d[names[j]]]

\* OpenCC._get_dict_refs on a cache miss
BuildDictRefs(config_key, d) ==
    LET Rounds(t) == DictRefs(Round(SlotsOf(d, t[1])),
                              IF Len(t) >= 2 THEN Round(SlotsOf(d, t[2])) ELSE NoRound,
                              IF Len(t) >= 3 THEN Round(SlotsOf(d, t[3])) ELSE NoRound)
    IN  Rounds(DictRefsTable(config_key))

\* OpenCC._get_dict_refs
get_dict_refs(config_key, cache, d) ==
    IF config_key \in DOMAIN cache THEN cache[config_key] ELSE BuildDictRefs(config_key, d)

\* the methods that take a punctuation argument, with every tag that is not
\* Japanese among them
PunctuationMethodsNonJapanese == CONFIG_LIST \ {"t2jp", "jp2t"}

\* the methods that take a punctuation argument (s2t .. hk2s); convert
\* calls the others (t2tw .. jp2t) with the text alone
PunctuationMethods == {"s2t", "s2tw", "s2twp", "s2hk", "t2s", "tw2s", "tw2sp", "hk2s"}

\* the punctuation map a method with a punctuation argument translates with
MethodPunctMap(method) ==
    IF method \in {"s2t", "s2tw", "s2twp", "s2hk"} THEN PUNCT_S2T_MAP ELSE PUNCT_T2S_MAP

\* OpenCC.s2t .. OpenCC.jp2t: each looks up the refs of its own name, applies
\* the rounds and, if it has a punctuation argument that is true, translates
\* the quotes of the output
ConversionMethod(method, input_text, punctuation, cache, d, C, prebuilt, cpus) ==
    LET Applied(refs_m, a) ==
            [out |-> IF punctuation /\ method \in PunctuationMethods
                     THEN translate(a.out, MethodPunctMap(method)) ELSE a.out,
             calls |-> a.calls,
             caches |-> a.caches,
             raised |-> a.raised,
             config_cache |->
                 (method :> [refs_m EXCEPT !.max_lengths = get_max_lengths(refs_m)]) @@ cache]
        Apply(refs_m) ==
            Applied(refs_m, apply_segment_replace(refs_m, input_text, C, prebuilt, cpus))
    IN  Apply(get_dict_refs(method, cache, d))

\* an error message returned in place of converted text: one token
ErrText(msg) == <<msg>>

\* the empty-input branch of convert with last_error left as it was
EmptyInputSilent(err, cache, C) ==
    [out |-> <<>>, last_error |-> err, calls |-> <<>>,
     caches |-> C, config_cache |-> cache, raised |-> FALSE]

\* OpenCC.convert, `if not input_text:` -- the message is recorded and ""
\* returned
EmptyInput(err, cache, C) ==
    [out |-> <<>>, last_error |-> "Input text is empty", calls |-> <<>>,
     caches |-> C, config_cache |-> cache, raised |-> FALSE]

\* an exception handler that returns the diagnostic and leaves last_error as
\* it was
ConversionFailedUnrecorded(m, err) ==
    [out |-> ErrText("Conversion failed: TypeError"),
     last_error |-> err,
     calls |-> m.calls, caches |-> m.caches,
     config_cache |-> m.config_cache, raised |-> FALSE]

\* OpenCC.convert, `except Exception as e:` -- the diagnostic is recorded in
\* _last_error and returned; what the failed method left in the caches stays
ConversionFailed(m, err) ==
    [out |-> ErrText("Conversion failed: TypeError"),
     last_error |-> "Conversion failed: TypeError",
     calls |-> m.calls, caches |-> m.caches,
     config_cache |-> m.config_cache, raised |-> FALSE]

\* OpenCC.convert; `self.config.lower()` leaves the tags of CONFIG_LIST as they are
convert(input_text, punctuation, cfg, err, cache, d, C, prebuilt, cpus) ==
    IF Len(input_text) = 0
    THEN EmptyInput(err, cache, C)
    ELSE IF cfg \in CONFIG_LIST
         THEN LET Returned(m) ==
                      IF m.raised
                      THEN ConversionFailed(m, err)
                      ELSE [out |-> m.out, last_error |-> err, calls |-> m.calls,
                            caches |-> m.caches, config_cache |-> m.config_cache,
                            raised |-> FALSE]
              IN  Returned(ConversionMethod(cfg, input_text, punctuation,
                                            cache, d, C, prebuilt, cpus))
         ELSE [out |-> ErrText("Invalid config: " \o cfg),
               last_error |-> "Invalid config: " \o cfg, calls |-> <<>>,
               caches |-> C, config_cache |-> cache, raised |-> FALSE]

\* opencc_py OpenCC.convert, `if not input_text:`
PyEmptyInput(conv) == [conv EXCEPT !.last_error = "Input text is empty"]

---------------------------------------------------------------------------
(* core.py and opencc_py/core.py: st, ts, zho_check                        *)

\* opencc_py STRIP_REGEX, [!-/:-@\[-`{-~\t\n\v\f\r 0-9A-Za-z_], as code points
PY_STRIP_REGEX ==
    (33..47) \cup (58..64) \cup (91..96) \cup (123..126) \cup (9..13) \cup {32}
        \cup (48..57) \cup (65..90) \cup (97..122) \cup {95}

\* opencc_purepy STRIP_REGEX: the same class with U+8457 added
STRIP_REGEX == PY_STRIP_REGEX \cup {Ord["U8457"]}

\* STRIP_REGEX.sub("", input_text)
StripSub(regex, input_text) == SelectSeq(input_text, LAMBDA c : Ord[c] \notin regex)

\* text[:n]
Prefix(text, n) == SubSeq(text, 1, Min2(n, Len(text)))

\* OpenCC.st / OpenCC.ts: the legacy scanner over the one character slot
\* with max_word_length 1 (opencc_py's convert_by is the same loop)
st(input_text, d) ==
    IF Len(input_text) = 0 THEN input_text
    ELSE convert_segment(input_text, <<d["st_characters"]>>, 1)

ts(input_text, d) ==
    IF Len(input_text) = 0 THEN input_text
    ELSE convert_segment(input_text, <<d["ts_characters"]>>, 1)

\* the comparisons of zho_check on the examined prefix
ZhoVerdict(strip_text, d) ==
    IF strip_text # ts(strip_text, d) THEN 1
    ELSE IF strip_text # st(strip_text, d) THEN 2
    ELSE 0

\* the number of characters zho_check examines: stripped[:100]
ZHO_CHECK_CHARS == 100

\* opencc_purepy OpenCC.zho_check
zho_check(input_text, d) ==
    IF Len(input_text) = 0 THEN 0
    ELSE ZhoVerdict(Prefix(StripSub(STRIP_REGEX, input_text), ZHO_CHECK_CHARS), d)

\* s.encode('utf-8'), each byte as "lead" or "cont" ((b & 0xC0) == 0x80)
Utf8Bytes(c) ==
    IF Ord[c] < 128 THEN <<"lead">>
    ELSE IF Ord[c] < 2048 THEN <<"lead", "cont">>
    ELSE IF Ord[c] < 65536 THEN <<"lead", "cont", "cont">>
    ELSE <<"lead", "cont", "cont", "cont">>

encode(s) == Join([j \in 1..Len(s) |-> Utf8Bytes(s[j])])

\* `while byte_count > 0 and (encoded[byte_count] & 0b11000000) == 0b10000000`
RECURSIVE Utf8Backoff(_, _)
Utf8Backoff(encoded, byte_count) ==
    IF byte_count > 0 /\ encoded[byte_count + 1] = "cont"
    THEN Utf8Backoff(encoded, byte_count - 1)
    ELSE byte_count

\* opencc_py find_max_utf8_length: a number of bytes
find_max_utf8_length(s, max_byte_count) ==
    LET Count(encoded) ==
            IF Len(encoded) <= max_byte_count THEN Len(encoded)
            ELSE Utf8Backoff(encoded, max_byte_count)
    IN  Count(encode(IF Len(s) >= max_byte_count THEN Prefix(s, max_byte_count) ELSE s))

\* find_max_utf8_length(stripped, 200)
PY_ZHO_CHECK_BYTES == 200

\* opencc_py OpenCC.zho_check: the byte count is used as a number of
\* characters, stripped[:max_chars]
py_zho_check(input_text, d) ==
    IF Len(input_text) = 0 THEN 0
    ELSE LET Examine(stripped) ==
                 ZhoVerdict(Prefix(stripped, find_max_utf8_length(stripped, PY_ZHO_CHECK_BYTES)),
                            d)
         IN  Examine(StripSub(PY_STRIP_REGEX, input_text))

---------------------------------------------------------------------------
(* Observation of a call                                                   *)

Call(op, text, flag, arg, n) == [op |-> op, text |-> text, flag |-> flag, arg |-> arg, n |-> n]

Ret(out, segs, ranges, path) == [out |-> out, segs |-> segs, ranges |-> ranges, path |-> path]

NoRet == Ret(<<>>, <<>>, <<>>, "")

\* no pool.map in progress
PoolIdle == [phase |-> "idle", text |-> <<>>, groups |-> <<>>, fast |-> <<>>,
             task |-> <<>>, results |-> <<>>, done_order |-> <<>>]

---------------------------------------------------------------------------
(* The scanners on every small round.  The bundle's st_phrases and         *)
(* st_characters and the text are drawn in the initial state; the actions  *)
(* scan the text with the s2t round [st_phrases, st_characters].           *)

ScanAlphabet == {"a", "b", ","}
ScanTexts == StringsUpTo(ScanAlphabet, MaxTextLen)
ScanKeys == {<<"a">>, <<"a", "b">>, <<",">>}

\* a key one longer than a mask is wide; it is also the text that holds it
LongKey == [j \in 1..(MASK_BITS + 1) |-> "a"]
LongDict == (LongKey :> <<"x">>)

DictsOver(keys, values) ==
    UNION {[K -> values] : K \in {S \in SUBSET keys : Cardinality(S) <= MaxDictSize}}

\* pairs in which a replacement holds a key of the round
ChainDictPairs ==
    { <<(<<"a", "b">> :> <<"b", "a">>), (<<"a">> :> <<"y">>)>>,
      <<(<<"a">> :> <<"b">>), (<<"b">> :> <<"a">>)>> }

\* the (st_phrases, st_characters) pairs: the second slot may agree or
\* disagree with the first on a shared key
\* a key that begins with a delimiter, which is a key as well
SpanDictPairs ==
    { <<(<<",", "a">> :> <<"x">>) @@ (<<",">> :> <<"y">>), EmptyDict>> }

ScanDictPairs ==
    (DictsOver(ScanKeys, {<<"x">>}) \X DictsOver(ScanKeys, {<<"x">>, <<"y">>}))
    \cup ({LongDict} \X {EmptyDict, (<<"a">> :> <<"y">>)})
    \cup ChainDictPairs
    \cup SpanDictPairs

ScanBundle(p, c) ==
    [name \in SlotNames |->
        CASE name = "st_phrases" -> LoadedSlot(name, p)
          [] name = "st_characters" -> LoadedSlot(name, c)
          [] OTHER -> LoadedSlot(name, EmptyDict)]

ScanRound == SlotsOf(dictionary, DictRefsTable("s2t")[1])

ScanRoundMax == RoundMaxLength(Round(ScanRound))

InitScan ==
    /\ config = "s2t"
    /\ last_error = None
    /\ \E pc \in ScanDictPairs : dictionary = ScanBundle(pc[1], pc[2])
    /\ scan_text \in ScanTexts \cup {LongKey}
    /\ dict_starter_index = NoIndex
    /\ config_cache = <<>>
    /\ fp_cache = <<>>
    /\ merged_cache = <<>>
    /\ starter_idx_cache = <<>>
    /\ fast_cache = <<>>
    /\ cpu_count = 4
    /\ py_conv = PyOpenCCInit("s2t", TRUE)
    /\ call = Call("init", <<>>, FALSE, "s2t", 0)
    /\ ret = NoRet
    /\ calls = <<>>
    /\ pool = PoolIdle
    /\ refs_obj = DictRefs(NoRound, NoRound, NoRound)
    /\ n_calls = 0
    /\ threads = NoThreads
    /\ heap = NoHeap

\* OpenCC.convert_segment_indexed(segment, merge_in_precedence(dicts),
\*                                StarterIndex.build(dicts, global_cap), global_cap)
ScanConvertSegmentIndexed ==
    \E global_cap \in {1, 2, ScanRoundMax} :
        LET Returns(parts) ==
                /\ call' = Call("convert_segment_indexed", scan_text, FALSE, "", global_cap)
                /\ ret' = Ret(PartsText(parts),
                              <<[s |-> 0, e |-> Len(scan_text), parts |-> parts]>>, <<>>, "")
                /\ UNCHANGED <<converter_vars, environment, segment_caches, calls, pool,
                               n_calls>>
            Scan(active_dicts) ==
                Returns(convert_segment_indexed_parts(scan_text,
                            merge_in_precedence(active_dicts),
                            StarterIndexBuild(active_dicts, global_cap), global_cap))
        IN  Scan(ActiveDicts(ScanRound))

\* OpenCC.convert_segment(segment, round, max length of the round)
ScanConvertSegment ==
    LET Returns(parts) ==
            /\ call' = Call("convert_segment", scan_text, FALSE, "", ScanRoundMax)
            /\ ret' = Ret(PartsText(parts),
                          <<[s |-> 0, e |-> Len(scan_text), parts |-> parts]>>, <<>>, "")
            /\ UNCHANGED <<converter_vars, environment, segment_caches, calls, pool, n_calls>>
    IN  Returns(convert_segment_parts(scan_text, ScanRound, ScanRoundMax))

NextScan == ScanConvertSegmentIndexed \/ ScanConvertSegment

SpecScan == InitScan /\ [][NextScan]_vars

---------------------------------------------------------------------------
(* segment_replace on every small round and text                           *)

\* self.segment_replace(text, round, max length of the round)
SegSegmentReplace ==
    LET Returns(r) ==
            /\ call' = Call("segment_replace", scan_text, FALSE, "", ScanRoundMax)
            /\ ret' = Ret(r.out, r.segs, <<>>, r.path)
            /\ StoreCaches(r.caches)
            /\ UNCHANGED <<converter_vars, environment, calls, pool, n_calls>>
    IN  Returns(segment_replace(scan_text, ScanRound, ScanRoundMax, Caches,
                                dict_starter_index, cpu_count))

\* OpenCC.get_split_ranges(text, inclusive)
SegGetSplitRanges ==
    \E inclusive \in BOOLEAN :
        /\ call' = Call("get_split_ranges", scan_text, inclusive, "", 0)
        /\ ret' = Ret(<<>>, <<>>, get_split_ranges(scan_text, inclusive), "")
        /\ UNCHANGED <<converter_vars, environment, segment_caches, calls, pool, n_calls>>

NextSeg == SegSegmentReplace \/ SegGetSplitRanges

SpecSeg == InitScan /\ [][NextSeg]_vars

---------------------------------------------------------------------------
(* The parallel path of segment_replace: pool.map hands one task per group *)
(* to the worker processes, which take and finish them in any order.       *)

ParBundles ==
    { <<(<<"a", "b">> :> <<"x">>), (<<"a">> :> <<"y">>)>>,
      <<EmptyDict, (<<"b">> :> <<"y", "y">>)>> }

\* the texts that take the parallel path
ParTexts ==
    {t \in StringsUpTo(ScanAlphabet, MaxParTextLen) :
        UseParallel(t, get_split_ranges(t, TRUE))}

InitPar ==
    /\ config = "s2t"
    /\ last_error = None
    /\ \E pc \in ParBundles : dictionary = ScanBundle(pc[1], pc[2])
    /\ scan_text \in ParTexts
    /\ dict_starter_index = NoIndex
    /\ config_cache = <<>>
    /\ fp_cache = <<>>
    /\ merged_cache = <<>>
    /\ starter_idx_cache = <<>>
    /\ fast_cache = <<>>
    /\ cpu_count \in 1..MaxCpu
    /\ py_conv = PyOpenCCInit("s2t", TRUE)
    /\ call = Call("init", <<>>, FALSE, "s2t", 0)
    /\ ret = NoRet
    /\ calls = <<>>
    /\ pool = PoolIdle
    /\ refs_obj = DictRefs(NoRound, NoRound, NoRound)
    /\ n_calls = 0
    /\ threads = NoThreads
    /\ heap = NoHeap

\* segment_replace up to `pool.map(...)`: the fast-path prep, the split, the
\* grouping and the submission of one task per group
ParSegmentReplace ==
    LET Submit(prep, ranges, groups) ==
            /\ pool.phase = "idle"
            /\ Len(scan_text) > 0
            /\ ~(Len(ranges) = 1 /\ ranges[1] = <<0, Len(scan_text)>>)
            /\ UseParallel(scan_text, ranges)
            /\ pool' = [phase |-> "map", text |-> scan_text, groups |-> groups,
                        fast |-> prep.fast,
                        task |-> [g \in 1..Len(groups) |-> "queued"],
                        results |-> [g \in 1..Len(groups) |->
                                        [done |-> FALSE, value |-> <<>>]],
                        done_order |-> <<>>]
            /\ StoreCaches(prep.caches)
            /\ call' = Call("segment_replace", scan_text, FALSE, "", ScanRoundMax)
            /\ ret' = NoRet
            /\ UNCHANGED <<converter_vars, environment, calls, n_calls>>
        Group(ranges) ==
            Submit(FastPrep(Caches, ScanRound, ScanRoundMax, dict_starter_index), ranges,
                   chunk_ranges(ranges, GroupCount(cpu_count)))
    IN  Group(get_split_ranges(scan_text, TRUE))

\* a free worker process of the pool takes a queued task
WorkerTake ==
    \E g \in 1..Len(pool.task) :
        /\ pool.phase = "map"
        /\ pool.task[g] = "queued"
        /\ Cardinality({h \in 1..Len(pool.task) : pool.task[h] = "running"})
               < GroupCount(cpu_count)
        /\ pool' = [pool EXCEPT !.task[g] = "running"]
        /\ UNCHANGED <<converter_vars, environment, segment_caches, call, ret, calls, n_calls>>

\* a worker finishes convert_range_group_indexed on its group
WorkerFinish ==
    \E g \in 1..Len(pool.task) :
        /\ pool.phase = "map"
        /\ pool.task[g] = "running"
        /\ pool' = [pool EXCEPT
                       !.task[g] = "done",
                       !.results = PoolStore(pool.results, g,
                                       convert_range_group(pool.text, pool.groups[g],
                                           pool.fast, ScanRound, ScanRoundMax)),
                       !.done_order = Append(pool.done_order, g)]
        /\ UNCHANGED <<converter_vars, environment, segment_caches, call, ret, calls, n_calls>>

\* pool.map returns once every task is done; `return "".join(results)`
ParJoin ==
    /\ pool.phase = "map"
    /\ \A g \in 1..Len(pool.task) : pool.task[g] = "done"
    /\ ret' = Ret(Join([g \in 1..Len(pool.results) |-> pool.results[g].value]),
                  <<>>, <<>>, "parallel")
    /\ pool' = [pool EXCEPT !.phase = "idle"]
    /\ UNCHANGED <<converter_vars, environment, segment_caches, call, calls, n_calls>>

NextPar == ParSegmentReplace \/ WorkerTake \/ WorkerFinish \/ ParJoin

SpecPar == InitPar /\ [][NextPar]_vars

---------------------------------------------------------------------------
(* The DictRefs API: a DictRefs built from any three rounds is applied to  *)
(* a text with segment_replace as the scanner, by the class of core.py and *)
(* by the class of dict_refs.py.                                           *)

\* a slot as DictionaryMaxlength() leaves it: an empty dict of length 0
UnloadedSlot == DictionaryMaxlengthDefault["tw_variants"]

RefSlotA == LoadedSlot("st_characters", (<<"a">> :> <<"b">>))
RefSlotB == LoadedSlot("ts_characters", (<<"b">> :> <<"a">>))
RefSlotP == LoadedSlot("st_phrases", (<<"a", "b">> :> <<"x">>))

RefRounds == {NoRound, Round(<<>>), Round(<<RefSlotA>>), Round(<<RefSlotB>>),
              Round(<<RefSlotP, RefSlotA>>), Round(<<UnloadedSlot>>)}

RefTexts == {<<>>, <<"a">>, <<"a", "b">>}

RefBundle ==
    [name \in SlotNames |->
        CASE name = "st_characters" -> RefSlotA
          [] name = "ts_characters" -> RefSlotB
          [] name = "st_phrases" -> RefSlotP
          [] OTHER -> DictionaryMaxlengthDefault[name]]

InitRefs ==
    /\ config = "s2t"
    /\ last_error = None
    /\ dictionary = RefBundle
    /\ scan_text \in RefTexts
    /\ \E r1, r2, r3 \in RefRounds : refs_obj = DictRefs(r1, r2, r3)
    /\ dict_starter_index = NoIndex
    /\ config_cache = <<>>
    /\ fp_cache = <<>>
    /\ merged_cache = <<>>
    /\ starter_idx_cache = <<>>
    /\ fast_cache = <<>>
    /\ cpu_count = 4
    /\ py_conv = PyOpenCCInit("s2t", TRUE)
    /\ call = Call("init", <<>>, FALSE, "s2t", 0)
    /\ ret = NoRet
    /\ calls = <<>>
    /\ pool = PoolIdle
    /\ n_calls = 0
    /\ threads = NoThreads
    /\ heap = NoHeap

\* core.py: refs.apply_segment_replace(text, self.segment_replace); an
\* exception of the scanner propagates to the caller
RefsApplyCore ==
    LET Returns(a) ==
            /\ call' = Call("core.apply_segment_replace", scan_text, FALSE, "", 0)
            /\ ret' = Ret(a.out, <<>>, <<>>, IF a.raised THEN "raised" ELSE "returned")
            /\ calls' = a.calls
            /\ refs_obj' = [refs_obj EXCEPT !.max_lengths = get_max_lengths(refs_obj)]
            /\ StoreCaches(a.caches)
            /\ UNCHANGED <<converter_vars, dictionary, dict_starter_index, cpu_count,
                           py_conv, scan_text, pool, n_calls, threads, heap>>
    IN  Returns(apply_segment_replace(refs_obj, scan_text, Caches, dict_starter_index,
                                      cpu_count))

\* dict_refs.py: refs.apply_segment_replace(text, segment_replace=self.segment_replace)
RefsApplyDictRefs ==
    LET Returns(a) ==
            /\ call' = Call("dict_refs.apply_segment_replace", scan_text, FALSE, "", 0)
            /\ ret' = Ret(a.out, <<>>, <<>>, "returned")
            /\ calls' = a.calls
            /\ StoreCaches(a.caches)
            /\ UNCHANGED <<converter_vars, environment, pool, n_calls>>
    IN  Returns(dict_refs_apply_segment_replace(refs_obj, scan_text, Caches,
                                                dict_starter_index, cpu_count))

NextRefs == RefsApplyCore \/ RefsApplyDictRefs

SpecRefs == InitRefs /\ [][NextRefs]_vars

---------------------------------------------------------------------------
(* The converter: construction, set_config and convert                     *)

\* the bundle DictionaryMaxlength.new() loads: every slot holds a few keys,
\* the character slots of both directions also a quote
LoadedBundle ==
    [name \in SlotNames |->
        CASE name = "st_characters" ->
                 LoadedSlot(name, (<<"a">> :> <<"b">>) @@ (<<"LCB">> :> <<"c">>))
          [] name = "ts_characters" ->
                 LoadedSlot(name, (<<"a">> :> <<"b">>) @@ (<<"LDQ">> :> <<"c">>))
          [] name \in {"tw_variants", "hk_variants", "jp_variants", "tw_phrases_rev"} ->
                 LoadedSlot(name, (<<"b">> :> <<"d">>))
          [] name \in {"st_phrases", "ts_phrases"} ->
                 LoadedSlot(name, (<<"a", "a">> :> <<"x">>))
          [] OTHER -> LoadedSlot(name, (<<"a">> :> <<"e">>))]

\* OpenCC(), OpenCC("") and OpenCC("xyz")
ConstructorArgs == {None, "", "xyz"}
SetConfigArgs == CONFIG_LIST \cup {"", "xyz"}

ApiTexts == {<<>>, <<"a", "LDQ", "a", "LCB">>}

\* OpenCC(config) of opencc_purepy, and OpenCC(config) of opencc_py built
\* with the same argument
Init ==
    \E config_arg \in ConstructorArgs, load_ok \in BOOLEAN :
        /\ config = OpenCCInit(config_arg, load_ok).config
        /\ last_error = OpenCCInit(config_arg, load_ok).last_error
        /\ dictionary = IF load_ok THEN LoadedBundle ELSE DictionaryMaxlengthDefault
        /\ py_conv = PyOpenCCInit(config_arg, load_ok)
        /\ call = Call("init", <<>>, load_ok, config_arg, 0)
        /\ dict_starter_index = NoIndex
        /\ config_cache = <<>>
        /\ fp_cache = <<>>
        /\ merged_cache = <<>>
        /\ starter_idx_cache = <<>>
        /\ fast_cache = <<>>
        /\ cpu_count = 4
        /\ ret = NoRet
        /\ calls = <<>>
        /\ pool = PoolIdle
        /\ scan_text = <<>>
        /\ refs_obj = DictRefs(NoRound, NoRound, NoRound)
        /\ n_calls = 0
        /\ threads = NoThreads
        /\ heap = NoHeap

\* converter.set_config(config_arg)
SetConfig ==
    \E config_arg \in SetConfigArgs :
        /\ config' = set_config(config_arg).config
        /\ last_error' = set_config(config_arg).last_error
        /\ call' = Call("set_config", <<>>, FALSE, config_arg, 0)
        /\ ret' = NoRet
        /\ calls' = <<>>
        /\ UNCHANGED <<config_cache, environment, segment_caches, pool, n_calls>>

\* converter.convert(input_text, punctuation); the number of configs the
\* converter has cached rounds for is kept within MaxCachedConfigs
Convert ==
    \E input_text \in ApiTexts, punctuation \in BOOLEAN :
        LET Returns(r) ==
                /\ last_error' = r.last_error
                /\ config_cache' = r.config_cache
                /\ StoreCaches(r.caches)
                /\ call' = Call("convert", input_text, punctuation, config, 0)
                /\ ret' = Ret(r.out, <<>>, <<>>, IF r.raised THEN "raised" ELSE "returned")
                /\ calls' = r.calls
                /\ UNCHANGED <<config, environment, pool, n_calls>>
        IN  /\ \/ Len(input_text) = 0
               \/ config \in DOMAIN config_cache
               \/ Cardinality(DOMAIN config_cache) < MaxCachedConfigs
            /\ Returns(convert(input_text, punctuation, config, last_error, config_cache,
                               dictionary, Caches, dict_starter_index, cpu_count))

\* convert("", punctuation) on the opencc_py converter
PyConvertEmpty ==
    \E punctuation \in BOOLEAN :
        /\ py_conv' = PyEmptyInput(py_conv)
        /\ call' = Call("py.convert", <<>>, punctuation, py_conv.config, 0)
        /\ ret' = Ret(<<>>, <<>>, <<>>, "returned")
        /\ calls' = <<>>
        /\ UNCHANGED <<converter_vars, dictionary, dict_starter_index, cpu_count,
                       scan_text, refs_obj, segment_caches, pool, n_calls, threads, heap>>

Next == SetConfig \/ Convert \/ PyConvertEmpty

Spec == Init /\ [][Next]_vars

---------------------------------------------------------------------------
(* The converter on a bundle that loads but is malformed: one slot's map   *)
(* is null (None).  The operations are those of Spec.                      *)

\* the slots that may hold the null map
NoneSlotNames == {"st_characters", "tw_variants"}

MalformedBundle(none_slot) ==
    [name \in SlotNames |->
        IF name = none_slot THEN <<NoneDict, 1>> ELSE LoadedBundle[name]]

InitErr ==
    \E config_arg \in {None, "s2twp"},
       none_slot \in NoneSlotNames :
        /\ config = OpenCCInit(config_arg, TRUE).config
        /\ last_error = OpenCCInit(config_arg, TRUE).last_error
        /\ dictionary = MalformedBundle(none_slot)
        /\ py_conv = PyOpenCCInit(config_arg, TRUE)
        /\ call = Call("init", <<>>, TRUE, config_arg, 0)
        /\ dict_starter_index = NoIndex
        /\ config_cache = <<>>
        /\ fp_cache = <<>>
        /\ merged_cache = <<>>
        /\ starter_idx_cache = <<>>
        /\ fast_cache = <<>>
        /\ cpu_count = 4
        /\ ret = NoRet
        /\ calls = <<>>
        /\ pool = PoolIdle
        /\ scan_text = <<>>
        /\ refs_obj = DictRefs(NoRound, NoRound, NoRound)
        /\ n_calls = 0
        /\ threads = NoThreads
        /\ heap = NoHeap

SpecErr == InitErr /\ [][Next]_vars

---------------------------------------------------------------------------
(* Two convert calls on one converter, each on its own thread.  A step is  *)
(* one read or one write of a shared object (_last_error, a cache, a       *)
(* DictRefs object's _max_lengths) with the local computation around it;   *)
(* the steps of the two calls interleave in every order.                   *)

ConcThreads == {1, 2}
ConcTexts == {<<>>, <<"a", "a">>}
ConcConfigs == {"tw2s", "s2twp"}

\* a bundle in which the second round of tw2s holds a longer key than the first
ConcBundle ==
    [name \in SlotNames |->
        CASE name \in {"ts_phrases", "st_phrases"} ->
                 LoadedSlot(name, (<<"a", "a">> :> <<"x">>))
          [] name \in {"ts_characters", "st_characters"} ->
                 LoadedSlot(name, (<<"a">> :> <<"b">>))
          [] name \in {"tw_variants_rev", "tw_variants"} ->
                 LoadedSlot(name, (<<"b">> :> <<"d">>))
          [] OTHER -> LoadedSlot(name, EmptyDict)]

\* the frame of a call that has not started
IdleThread ==
    [pc |-> "idle", input |-> <<>>, out |-> <<>>, refs |-> 0, ml |-> 0, k |-> 0, j |-> 0,
     mwl |-> 0, sig |-> <<>>, merged |-> <<>>, idx |-> NoIndex, fast |-> <<>>,
     result |-> <<>>]

InitConc ==
    /\ config \in ConcConfigs
    /\ last_error = None
    /\ dictionary = ConcBundle
    /\ py_conv = PyOpenCCInit(None, TRUE)
    /\ call = Call("init", <<>>, TRUE, None, 0)
    /\ dict_starter_index = NoIndex
    /\ config_cache = <<>>
    /\ fp_cache = <<>>
    /\ merged_cache = <<>>
    /\ starter_idx_cache = <<>>
    /\ fast_cache = <<>>
    /\ cpu_count = 4
    /\ ret = NoRet
    /\ calls = <<>>
    /\ pool = PoolIdle
    /\ scan_text = <<>>
    /\ refs_obj = DictRefs(NoRound, NoRound, NoRound)
    /\ n_calls = 0
    /\ threads = [t \in ConcThreads |-> IdleThread]
    /\ heap = NoHeap

\* the rounds of the DictRefs that _get_dict_refs builds for self.config
ConcRounds ==
    <<BuildDictRefs(config, dictionary).round_1, BuildDictRefs(config, dictionary).round_2,
      BuildDictRefs(config, dictionary).round_3>>

\* the shared steps leave last_error and the caches alone unless they say so
ConcFrame(t, frame) == threads' = [threads EXCEPT ![t] = frame]

ConcOnlyFrame ==
    UNCHANGED <<config, last_error, config_cache, segment_caches, dictionary,
                dict_starter_index, cpu_count, py_conv, scan_text, refs_obj, call, ret,
                calls, pool, n_calls, heap>>

\* convert: `if not input_text:` records the message and returns ""
ConcConvertEnter(t) ==
    /\ threads[t].pc = "idle"
    /\ \E input_text \in ConcTexts :
           IF Len(input_text) = 0
           THEN /\ last_error' = "Input text is empty"
                /\ ConcFrame(t, [threads[t] EXCEPT !.pc = "done", !.result = <<>>])
                /\ UNCHANGED <<config, config_cache, segment_caches, dictionary,
                               dict_starter_index, cpu_count, py_conv, scan_text, refs_obj,
                               call, ret, calls, pool, n_calls, heap>>
           ELSE /\ ConcFrame(t, [threads[t] EXCEPT !.pc = "refs_lookup",
                                                   !.input = input_text,
                                                   !.out = input_text])
                /\ ConcOnlyFrame

\* _get_dict_refs: `if config_key in self._config_cache: return ...`, else
\* a new DictRefs is built and stored; the cache holds the object's identity
ConcGetDictRefs(t) ==
    \/ /\ threads[t].pc = "refs_lookup"
       /\ ConcFrame(t, IF config \in DOMAIN config_cache
                       THEN [threads[t] EXCEPT !.pc = "ml_check",
                                               !.refs = config_cache[config]]
                       ELSE [threads[t] EXCEPT !.pc = "refs_store"])
       /\ ConcOnlyFrame
    \/ /\ threads[t].pc = "refs_store"
       /\ config_cache' = (config :> t) @@ config_cache
       /\ heap' = [heap EXCEPT !.refs = (t :> [ml |-> 0]) @@ @]
       /\ ConcFrame(t, [threads[t] EXCEPT !.pc = "ml_check", !.refs = t])
       /\ UNCHANGED <<config, last_error, segment_caches, dictionary, dict_starter_index,
                      cpu_count, py_conv, scan_text, refs_obj, call, ret, calls, pool,
                      n_calls>>

\* DictRefs._get_max_lengths on the DictRefs the call holds: the test
\* `self._max_lengths is None`, `self._max_lengths = []`, one
\* `self._max_lengths.append(...)` per round, `return self._max_lengths`;
\* every step reads the attribute anew
ConcGetMaxLengths(t) ==
    \/ /\ threads[t].pc = "ml_check"
       /\ ConcFrame(t, [threads[t] EXCEPT
                          !.pc = IF heap.refs[threads[t].refs].ml = 0
                                 THEN "ml_new" ELSE "ml_return"])
       /\ ConcOnlyFrame
    \/ /\ threads[t].pc = "ml_new"
       /\ heap' = [heap EXCEPT !.lists = (t :> <<>>) @@ @,
                               !.refs[threads[t].refs].ml = t]
       /\ ConcFrame(t, [threads[t] EXCEPT !.pc = "ml_append", !.j = 1])
       /\ UNCHANGED <<converter_vars, segment_caches, dictionary, dict_starter_index,
                      cpu_count, py_conv, scan_text, refs_obj, call, ret, calls, pool,
                      n_calls>>
    \/ /\ threads[t].pc = "ml_append"
       /\ heap' = [heap EXCEPT !.lists[heap.refs[threads[t].refs].ml] =
                                   Append(@, RoundMaxLength(ConcRounds[threads[t].j]))]
       /\ ConcFrame(t, [threads[t] EXCEPT
                          !.pc = IF threads[t].j = 3 THEN "ml_return" ELSE "ml_append",
                          !.j = threads[t].j + 1])
       /\ UNCHANGED <<converter_vars, segment_caches, dictionary, dict_starter_index,
                      cpu_count, py_conv, scan_text, refs_obj, call, ret, calls, pool,
                      n_calls>>
    \/ /\ threads[t].pc = "ml_return"
       /\ ConcFrame(t, [threads[t] EXCEPT !.pc = "round", !.k = 1,
                                          !.ml = heap.refs[threads[t].refs].ml])
       /\ ConcOnlyFrame

\* DictRefs.apply_segment_replace at round k: `if self.round_2:` /
\* `if self.round_3:`, then max_lengths[k - 1] is read (IndexError when the
\* list is shorter) and segment_replace entered; after round 3 the method
\* returns and convert returns its output
ConcApplyRound(t) ==
    /\ threads[t].pc = "round"
    /\ ConcFrame(t,
         IF threads[t].k > 3
         THEN [threads[t] EXCEPT !.pc = "done", !.result = threads[t].out]
         ELSE IF ~CoreRunsRound(threads[t].k, ConcRounds[threads[t].k])
         THEN [threads[t] EXCEPT !.k = threads[t].k + 1]
         ELSE IF Len(heap.lists[threads[t].ml]) < threads[t].k
         THEN [threads[t] EXCEPT !.pc = "fail_store"]
         ELSE IF Len(threads[t].out) = 0
         THEN [threads[t] EXCEPT !.k = threads[t].k + 1]
         ELSE [threads[t] EXCEPT !.pc = "fp_lookup", !.j = 1, !.sig = <<>>,
                                 !.mwl = heap.lists[threads[t].ml][threads[t].k]])
    /\ ConcOnlyFrame

\* the slots of the round the call is in
ConcSlots(t) == ConcRounds[threads[t].k].slots

\* the frame after the fingerprint fp of the j-th dict has been taken
ConcFingerprinted(t, fp) ==
    [threads[t] EXCEPT !.sig = Append(threads[t].sig, fp),
                       !.j = threads[t].j + 1,
                       !.pc = IF threads[t].j = Len(ConcSlots(t))
                              THEN "fast_lookup" ELSE "fp_lookup"]

\* _dict_fp on the j-th dict of the round: `self._fp_cache.get(k)`, and on a
\* miss `self._fp_cache[k] = fp`
ConcDictFp(t) ==
    \/ /\ threads[t].pc = "fp_lookup"
       /\ ConcFrame(t, IF ConcSlots(t)[threads[t].j][1].id \in DOMAIN fp_cache
                       THEN ConcFingerprinted(t, fp_cache[ConcSlots(t)[threads[t].j][1].id])
                       ELSE [threads[t] EXCEPT !.pc = "fp_store"])
       /\ ConcOnlyFrame
    \/ /\ threads[t].pc = "fp_store"
       /\ fp_cache' = dict_fp(<<>>, ConcSlots(t)[threads[t].j]).fp_cache @@ fp_cache
       /\ ConcFrame(t, ConcFingerprinted(t, dict_fp(<<>>, ConcSlots(t)[threads[t].j]).fp))
       /\ UNCHANGED <<converter_vars, merged_cache, starter_idx_cache, fast_cache,
                      dictionary, dict_starter_index, cpu_count, py_conv, scan_text,
                      refs_obj, call, ret, calls, pool, n_calls, heap>>

\* fast_key = (dict_sig, global_cap)
ConcFastKey(t) == <<threads[t].sig, GlobalCap(ConcSlots(t), threads[t].mwl)>>

\* the fast-path prep of segment_replace, one cache access per step:
\* _fast_cache.get, _merged_cache.get / store, _starter_idx_cache.get / store,
\* _fast_cache store
ConcFastPrep(t) ==
    \/ /\ threads[t].pc = "fast_lookup"
       /\ ConcFrame(t, IF ConcFastKey(t) \in DOMAIN fast_cache
                       THEN [threads[t] EXCEPT !.pc = "scan",
                                               !.fast = fast_cache[ConcFastKey(t)]]
                       ELSE [threads[t] EXCEPT !.pc = "merged_lookup"])
       /\ ConcOnlyFrame
    \/ /\ threads[t].pc = "merged_lookup"
       /\ ConcFrame(t, IF threads[t].sig \in DOMAIN merged_cache
                       THEN [threads[t] EXCEPT !.pc = "idx_lookup",
                                               !.merged = merged_cache[threads[t].sig]]
                       ELSE [threads[t] EXCEPT !.pc = "merged_store"])
       /\ ConcOnlyFrame
    \/ /\ threads[t].pc = "merged_store"
       /\ merged_cache' = (threads[t].sig :> merge_in_precedence(ActiveDicts(ConcSlots(t))))
                              @@ merged_cache
       /\ ConcFrame(t, [threads[t] EXCEPT
                          !.pc = "idx_lookup",
                          !.merged = merge_in_precedence(ActiveDicts(ConcSlots(t)))])
       /\ UNCHANGED <<converter_vars, fp_cache, starter_idx_cache, fast_cache, dictionary,
                      dict_starter_index, cpu_count, py_conv, scan_text, refs_obj, call,
                      ret, calls, pool, n_calls, heap>>
    \/ /\ threads[t].pc = "idx_lookup"
       /\ ConcFrame(t, IF ConcFastKey(t) \in DOMAIN starter_idx_cache
                       THEN [threads[t] EXCEPT !.pc = "fast_store",
                                               !.idx = starter_idx_cache[ConcFastKey(t)]]
                       ELSE [threads[t] EXCEPT !.pc = "idx_store"])
       /\ ConcOnlyFrame
    \/ /\ threads[t].pc = "idx_store"
       /\ starter_idx_cache' =
              (ConcFastKey(t) :> ChooseStarterIndex(dict_starter_index,
                                                    ActiveDicts(ConcSlots(t)),
                                                    ConcFastKey(t)[2]))
                  @@ starter_idx_cache
       /\ ConcFrame(t, [threads[t] EXCEPT
                          !.pc = "fast_store",
                          !.idx = ChooseStarterIndex(dict_starter_index,
                                                     ActiveDicts(ConcSlots(t)),
                                                     ConcFastKey(t)[2])])
       /\ UNCHANGED <<converter_vars, fp_cache, merged_cache, fast_cache, dictionary,
                      dict_starter_index, cpu_count, py_conv, scan_text, refs_obj, call,
                      ret, calls, pool, n_calls, heap>>
    \/ /\ threads[t].pc = "fast_store"
       /\ fast_cache' = (ConcFastKey(t) :> <<threads[t].merged, threads[t].idx,
                                              ConcFastKey(t)[2]>>) @@ fast_cache
       /\ ConcFrame(t, [threads[t] EXCEPT
                          !.pc = "scan",
                          !.fast = <<threads[t].merged, threads[t].idx, ConcFastKey(t)[2]>>])
       /\ UNCHANGED <<converter_vars, fp_cache, merged_cache, starter_idx_cache, dictionary,
                      dict_starter_index, cpu_count, py_conv, scan_text, refs_obj, call,
                      ret, calls, pool, n_calls, heap>>

\* segment_replace after the prep: the ranges are converted with the triple
\* the call holds, and the round's output is the next round's input
ConcScan(t) ==
    /\ threads[t].pc = "scan"
    /\ ConcFrame(t, [threads[t] EXCEPT
                       !.pc = "round",
                       !.k = threads[t].k + 1,
                       !.out = convert_range_group(threads[t].out,
                                                   get_split_ranges(threads[t].out, TRUE),
                                                   threads[t].fast, ConcSlots(t),
                                                   threads[t].mwl)])
    /\ ConcOnlyFrame

\* convert, `except Exception as e:` -- `self._last_error = ...` and then
\* `return self._last_error`, which reads the attribute again
ConcFail(t) ==
    \/ /\ threads[t].pc = "fail_store"
       /\ last_error' = "Conversion failed: IndexError"
       /\ ConcFrame(t, [threads[t] EXCEPT !.pc = "fail_return"])
       /\ UNCHANGED <<config, config_cache, segment_caches, dictionary, dict_starter_index,
                      cpu_count, py_conv, scan_text, refs_obj, call, ret, calls, pool,
                      n_calls, heap>>
    \/ /\ threads[t].pc = "fail_return"
       /\ ConcFrame(t, [threads[t] EXCEPT !.pc = "done", !.result = ErrText(last_error)])
       /\ ConcOnlyFrame

NextConc ==
    \E t \in ConcThreads :
        \/ ConcConvertEnter(t)
        \/ ConcGetDictRefs(t)
        \/ ConcGetMaxLengths(t)
        \/ ConcApplyRound(t)
        \/ ConcDictFp(t)
        \/ ConcFastPrep(t)
        \/ ConcScan(t)
        \/ ConcFail(t)

SpecConc == InitConc /\ [][NextConc]_vars

---------------------------------------------------------------------------
(* zho_check on texts around its prefix limits: a run of MaxZhoFill or     *)
(* fewer copies of U+4E00 (which neither direction converts) between a     *)
(* short head and a short tail.                                            *)

MaxZhoFill == 200

\* the character slots: U+6C49 is simplified, U+6F22 traditional, and U+8457
\* is a key of ts_characters
ZhoBundle ==
    [name \in SlotNames |->
        CASE name = "st_characters" -> LoadedSlot(name, (<<"U6C49">> :> <<"U6F22">>))
          [] name = "ts_characters" ->
                 LoadedSlot(name, (<<"U6F22">> :> <<"U6C49">>) @@ (<<"U8457">> :> <<"U7740">>))
          [] OTHER -> LoadedSlot(name, EmptyDict)]

ZhoFill(n) == [j \in 1..n |-> "U4E00"]

ZhoHeads == {<<>>, <<"a", ",">>, <<"U8457">>}
ZhoTails == {<<>>, <<"U6F22">>, <<"U6C49">>, <<"a", "U6F22">>}

ZhoTexts == {head \o ZhoFill(n) \o tail :
                head \in ZhoHeads, n \in 0..MaxZhoFill, tail \in ZhoTails}

InitZho ==
    /\ scan_text \in ZhoTexts
    /\ dictionary = ZhoBundle
    /\ config = "s2t"
    /\ last_error = None
    /\ py_conv = PyOpenCCInit(None, TRUE)
    /\ call = Call("init", <<>>, TRUE, None, 0)
    /\ dict_starter_index = NoIndex
    /\ config_cache = <<>>
    /\ fp_cache = <<>>
    /\ merged_cache = <<>>
    /\ starter_idx_cache = <<>>
    /\ fast_cache = <<>>
    /\ cpu_count = 4
    /\ ret = NoRet
    /\ calls = <<>>
    /\ pool = PoolIdle
    /\ refs_obj = DictRefs(NoRound, NoRound, NoRound)
    /\ n_calls = 0
    /\ threads = NoThreads
    /\ heap = NoHeap

\* converter.zho_check(scan_text) of opencc_purepy
ZhoCheck ==
    /\ call' = Call("zho_check", scan_text, FALSE, None, 0)
    /\ ret' = Ret(<<zho_check(scan_text, dictionary)>>, <<>>, <<>>, "returned")
    /\ UNCHANGED <<converter_vars, environment, segment_caches, calls, pool, n_calls>>

\* converter.zho_check(scan_text) of opencc_py
PyZhoCheck ==
    /\ call' = Call("py.zho_check", scan_text, FALSE, None, 0)
    /\ ret' = Ret(<<py_zho_check(scan_text, dictionary)>>, <<>>, <<>>, "returned")
    /\ UNCHANGED <<converter_vars, environment, segment_caches, calls, pool, n_calls>>

NextZho == ZhoCheck \/ PyZhoCheck

SpecZho == InitZho /\ [][NextZho]_vars

---------------------------------------------------------------------------
(* starter_index.py, starter_union.py: the indexes of a round.  The        *)
(* bundle's st_phrases and st_characters are drawn in the initial state;   *)
(* the actions build, or unpack from the bundle, an index of the s2t       *)
(* round [st_phrases, st_characters].                                      *)

\* a key exactly as long as a mask is wide
Key64 == [j \in 1..MASK_BITS |-> "b"]

IdxKeys == {<<>>, <<"a">>, <<"a", "b">>, <<"b", "a", "b">>, <<"U20000">>,
            <<"U20000", "a">>, Key64, LongKey}

\* the global_cap arguments of build and the global_cap fields of a blob
IdxCaps == {0, 1, 2, 3, MASK_BITS, MASK_BITS + 1}

IdxDictPairs == DictsOver(IdxKeys, {<<"x">>}) \X DictsOver(IdxKeys, {<<"x">>})

\* pack_index_blob: the arrays hold 64-bit masks and 16-bit caps, the
\* astral tables are keyed by str(cp)
pack_index_blob(idx) ==
    [schema      |-> 1,
     global_cap  |-> idx.global_cap,
     bmp_mask    |-> idx.bmp_mask,
     bmp_cap     |-> idx.bmp_cap,
     astral_mask |-> idx.astral_mask,
     astral_cap  |-> idx.astral_cap]

\* unpack_index_blob
unpack_index_blob(blob) ==
    [StarterIndexNew(blob.global_cap) EXCEPT !.bmp_mask = blob.bmp_mask,
                                             !.bmp_cap = blob.bmp_cap,
                                             !.astral_mask = blob.astral_mask,
                                             !.astral_cap = blob.astral_cap]

\* StarterUnion.build_starter_index: bit_for
bit_for(length) ==
    IF length <= 0 THEN {}
    ELSE IF length >= MASK_BITS THEN {MASK_BITS - 1}
    ELSE {length - 1}

\* StarterUnion.build_starter_index: the loop over merged_map.keys()
RECURSIVE UnionMarkKeys(_, _)
UnionMarkKeys(u, keys) ==
    IF keys = {} THEN u
    ELSE LET key == CHOOSE x \in keys : TRUE
             code == Ord[key[1]]
             key_len == Len(key)
         IN  UnionMarkKeys(
                 IF Len(key) = 0 THEN u
                 ELSE IF code <= BMP_MAX
                      THEN [u EXCEPT !.bmp_mask[code] = @ \cup bit_for(key_len),
                                     !.bmp_cap[code] = IF key_len > @ THEN key_len ELSE @]
                      ELSE [u EXCEPT
                              !.astral_mask = (code :> (DictGet(u.astral_mask, code, {})
                                                        \cup bit_for(key_len))) @@ @,
                              !.astral_cap = IF key_len > DictGet(u.astral_cap, code, 0)
                                             THEN (code :> key_len) @@ @ ELSE @],
                 keys \ {key})

\* StarterUnion.merge_precedence: `if k not in merged: merged[k] = v`
RECURSIVE merge_precedence(_)
merge_precedence(dicts) ==
    IF Len(dicts) = 0 THEN EmptyDict
    ELSE Head(dicts) @@ merge_precedence(Tail(dicts))

\* StarterUnion(merged_map, cap) followed by build_starter_index(); the
\* union's `cap` is kept in the field global_cap
build_starter_index(merged_map, cap) ==
    UnionMarkKeys([merged_map  |-> merged_map,
                   bmp_mask    |-> [cp \in BmpCodepoints |-> {}],
                   bmp_cap     |-> [cp \in BmpCodepoints |-> 0],
                   astral_mask |-> <<>>,
                   astral_cap  |-> <<>>,
                   global_cap  |-> cap],
                  DOMAIN merged_map)

InitIdx ==
    /\ config = "s2t"
    /\ last_error = None
    /\ \E pc \in IdxDictPairs : dictionary = ScanBundle(pc[1], pc[2])
    /\ scan_text = <<>>
    /\ dict_starter_index = NoIndex
    /\ config_cache = <<>>
    /\ fp_cache = <<>>
    /\ merged_cache = <<>>
    /\ starter_idx_cache = <<>>
    /\ fast_cache = <<>>
    /\ cpu_count = 4
    /\ py_conv = PyOpenCCInit("s2t", TRUE)
    /\ call = Call("init", <<>>, FALSE, "s2t", 0)
    /\ ret = NoRet
    /\ calls = <<>>
    /\ pool = PoolIdle
    /\ refs_obj = DictRefs(NoRound, NoRound, NoRound)
    /\ n_calls = 0
    /\ threads = NoThreads
    /\ heap = NoHeap

\* StarterIndex.build(dicts, global_cap), kept as the bundle's index
\* (DictionaryMaxlength.inject_starter_index); one index per bundle
IdxBuild ==
    /\ dict_starter_index = NoIndex
    /\ \E G \in IdxCaps :
        /\ dict_starter_index' = StarterIndexBuild(ActiveDicts(ScanRound), G)
        /\ call' = Call("StarterIndex.build", <<>>, TRUE, "", G)
    /\ UNCHANGED <<config, last_error, dictionary, config_cache, fp_cache,
                   merged_cache, starter_idx_cache, fast_cache, cpu_count,
                   py_conv, scan_text, ret, calls, pool, refs_obj, n_calls,
                   threads, heap>>

\* the "starter_index" blobs a bundle may hold for a packed index: any
\* global_cap field
BundleBlobs(packed) == {[packed EXCEPT !.global_cap = gc] : gc \in IdxCaps}

\* DictionaryMaxlength.try_get_starter_index: nothing cached yet, so
\* unpack_index_blob of the bundle's "starter_index".  The blob is the
\* packed index of the round for some global_cap, with any global_cap
\* field; call.flag tells that the field is the one pack_index_blob wrote
IdxUnpack ==
    /\ dict_starter_index = NoIndex
    /\ \E G \in IdxCaps :
        \E blob \in BundleBlobs(pack_index_blob(StarterIndexBuild(ActiveDicts(ScanRound), G))) :
            /\ dict_starter_index' = unpack_index_blob(blob)
            /\ call' = Call("unpack_index_blob", <<>>,
                            blob.global_cap = Min2(Max2(1, G), MASK_BITS),
                            "", blob.global_cap)
    /\ UNCHANGED <<config, last_error, dictionary, config_cache, fp_cache,
                   merged_cache, starter_idx_cache, fast_cache, cpu_count,
                   py_conv, scan_text, ret, calls, pool, refs_obj, n_calls,
                   threads, heap>>

\* the "schema" fields a bundle's blob may carry
IdxSchemas == {1, 2}

\* a packed index as another writer leaves it in the bundle: its schema
\* field, and a "version" field pack_index_blob does not write
VersionedBlobs(packed) ==
    {[packed EXCEPT !.schema = sc] : sc \in IdxSchemas \ {1}}
    \cup {("version" :> "2") @@ [packed EXCEPT !.schema = sc] : sc \in IdxSchemas}

\* DictionaryMaxlength.try_get_starter_index on such a blob; call.arg tells
\* the blob's schema and call.flag that it has the extra field
IdxUnpackVersioned ==
    /\ dict_starter_index = NoIndex
    /\ \E G \in IdxCaps :
        \E blob \in VersionedBlobs(pack_index_blob(StarterIndexBuild(ActiveDicts(ScanRound), G))) :
            /\ dict_starter_index' = unpack_index_blob(blob)
            /\ call' = Call("try_get_starter_index", <<>>, "version" \in DOMAIN blob,
                            IF blob.schema = 1 THEN "schema 1" ELSE "other schema", G)
    /\ UNCHANGED <<config, last_error, dictionary, config_cache, fp_cache,
                   merged_cache, starter_idx_cache, fast_cache, cpu_count,
                   py_conv, scan_text, ret, calls, pool, refs_obj, n_calls,
                   threads, heap>>

\* StarterUnion.merge_precedence(slots) and build_starter_index()
IdxUnionBuild ==
    /\ dict_starter_index = NoIndex
    /\ dict_starter_index' = build_starter_index(merge_precedence(ActiveDicts(ScanRound)),
                                                 ScanRoundMax)
    /\ call' = Call("build_starter_index", <<>>, TRUE, "", ScanRoundMax)
    /\ UNCHANGED <<config, last_error, dictionary, config_cache, fp_cache,
                   merged_cache, starter_idx_cache, fast_cache, cpu_count,
                   py_conv, scan_text, ret, calls, pool, refs_obj, n_calls,
                   threads, heap>>

NextIdx == IdxBuild \/ IdxUnpack \/ IdxUnpackVersioned \/ IdxUnionBuild

SpecIdx == InitIdx /\ [][NextIdx]_vars

---------------------------------------------------------------------------
(* The caches of segment_replace over several calls on one engine.  The    *)
(* caller passes a round of the engine's bundle, or a list holding a dict  *)
(* it has just created; refs_obj holds the round of the last call.         *)

CacheTexts == {<<"a">>, <<"a", "b">>, <<"a", ",", "a", "b">>}

CacheBundles ==
    { <<(<<"a", "b">> :> <<"x">>), (<<"a">> :> <<"y">>)>>,
      <<(<<"a", "b">> :> <<"x">>), EmptyDict>> }

\* the rounds of the bundle that s2t and its variants pass
CacheRoundNames == {<<"st_phrases", "st_characters">>, <<"st_characters">>}

\* id(d) of a dict created for one call: an address the allocator has free,
\* possibly the address of a dict that an earlier call's caller dropped
TempAddresses == {"0x1", "0x2"}

TempMaps == {(<<"a">> :> <<"x">>), (<<"a">> :> <<"y">>),
             (<<"a">> :> <<"x">>) @@ (<<"a", "b">> :> <<"y">>)}

InitCache ==
    /\ config = "s2t"
    /\ last_error = None
    /\ \E pc \in CacheBundles : dictionary = ScanBundle(pc[1], pc[2])
    /\ scan_text \in CacheTexts
    /\ dict_starter_index = NoIndex
    /\ config_cache = <<>>
    /\ fp_cache = <<>>
    /\ merged_cache = <<>>
    /\ starter_idx_cache = <<>>
    /\ fast_cache = <<>>
    /\ cpu_count = 4
    /\ py_conv = PyOpenCCInit("s2t", TRUE)
    /\ call = Call("init", <<>>, FALSE, "s2t", 0)
    /\ ret = NoRet
    /\ calls = <<>>
    /\ pool = PoolIdle
    /\ refs_obj = DictRefs(NoRound, NoRound, NoRound)
    /\ n_calls = 0
    /\ threads = NoThreads
    /\ heap = NoHeap

\* self.segment_replace(text, dictionaries, max_word_length) and what it
\* leaves in the caches; call.arg tells whose dicts the round holds
CacheCall(dictionaries, whose) ==
    LET Returns(r) ==
            /\ call' = Call("segment_replace", scan_text, FALSE, whose,
                            RoundMaxLength(Round(dictionaries)))
            /\ ret' = Ret(r.out, r.segs, <<>>, r.path)
            /\ StoreCaches(r.caches)
            /\ refs_obj' = DictRefs(Round(dictionaries), NoRound, NoRound)
            /\ UNCHANGED <<converter_vars, dictionary, dict_starter_index, cpu_count,
                           py_conv, scan_text, calls, pool, n_calls, threads, heap>>
    IN  Returns(segment_replace(scan_text, dictionaries,
                                RoundMaxLength(Round(dictionaries)), Caches,
                                dict_starter_index, cpu_count))

\* a round of the engine's own bundle
CacheBundleRound ==
    \E names \in CacheRoundNames : CacheCall(SlotsOf(dictionary, names), "bundle")

\* o.segment_replace(text, [({...}, maxlen)], maxlen) on a dict literal
CacheTempRound ==
    \E addr \in TempAddresses, map \in TempMaps :
        CacheCall(<<LoadedSlot(addr, map)>>, "temporary")

NextCache == CacheBundleRound \/ CacheTempRound

SpecCache == InitCache /\ [][NextCache]_vars

---------------------------------------------------------------------------
(* dictionary_lib.py: load_dictionary_maxlength.  The content of a         *)
(* dictionary text file is drawn in the initial state, as a string over a  *)
(* key character, '#', TAB, space and newline; the action loads it into    *)
(* the slot st_characters, as from_dicts does.                             *)

MaxContentLen == 5

LoadAlphabet == {"k", "#", "TAB", "SP", "NL"}

\* the characters str.strip() and str.split() take for whitespace
Whitespace == {"TAB", "SP", "NL"}

\* str.strip()
RECURSIVE Strip(_)
Strip(s) ==
    IF Len(s) = 0 THEN s
    ELSE IF s[1] \in Whitespace THEN Strip(Tail(s))
    ELSE IF s[Len(s)] \in Whitespace THEN Strip(SubSeq(s, 1, Len(s) - 1))
    ELSE s

\* the pieces of s between the characters of seps, empty pieces included
RECURSIVE Pieces(_, _, _, _)
Pieces(s, seps, j, piece) ==
    IF j > Len(s) THEN <<piece>>
    ELSE IF s[j] \in seps THEN <<piece>> \o Pieces(s, seps, j + 1, <<>>)
    ELSE Pieces(s, seps, j + 1, Append(piece, s[j]))

\* str.splitlines(): no line for an empty string, none after a final newline
splitlines(s) ==
    IF Len(s) = 0 THEN <<>>
    ELSE IF s[Len(s)] = "NL" THEN Pieces(SubSeq(s, 1, Len(s) - 1), {"NL"}, 1, <<>>)
    ELSE Pieces(s, {"NL"}, 1, <<>>)

\* str.split(): the runs of non-whitespace characters
split(s) == SelectSeq(Pieces(s, Whitespace, 1, <<>>), LAMBDA p : Len(p) > 0)

\* the loop of load_dictionary_maxlength over the lines from the j-th on
RECURSIVE LoadLines(_, _, _, _)
LoadLines(lines, j, dict, max_length) ==
    IF j > Len(lines) THEN <<dict, max_length>>
    ELSE LET parts == split(Strip(lines[j]))
         IN  IF Len(parts) >= 2
             THEN LoadLines(lines, j + 1, (parts[1] :> parts[2]) @@ dict,
                            Max2(max_length, Len(parts[1])))
             ELSE LoadLines(lines, j + 1, dict, max_length)

\* DictionaryMaxlength.load_dictionary_maxlength
load_dictionary_maxlength(content) ==
    LoadLines(splitlines(Strip(content)), 1, EmptyDict, 1)

InitLoad ==
    /\ config = "s2t"
    /\ last_error = None
    /\ dictionary = DictionaryMaxlengthDefault
    /\ scan_text \in StringsUpTo(LoadAlphabet, MaxContentLen)
    /\ dict_starter_index = NoIndex
    /\ config_cache = <<>>
    /\ fp_cache = <<>>
    /\ merged_cache = <<>>
    /\ starter_idx_cache = <<>>
    /\ fast_cache = <<>>
    /\ cpu_count = 4
    /\ py_conv = PyOpenCCInit("s2t", TRUE)
    /\ call = Call("init", <<>>, FALSE, "s2t", 0)
    /\ ret = NoRet
    /\ calls = <<>>
    /\ pool = PoolIdle
    /\ refs_obj = DictRefs(NoRound, NoRound, NoRound)
    /\ n_calls = 0
    /\ threads = NoThreads
    /\ heap = NoHeap

\* from_dicts: setattr(instance, attr, cls.load_dictionary_maxlength(content))
LoadDictionary ==
    LET Returns(r) ==
            /\ call.op = "init"
            /\ dictionary' = [dictionary EXCEPT
                                 !["st_characters"] = <<DictObject("st_characters", r[1]), r[2]>>]
            /\ call' = Call("load_dictionary_maxlength", scan_text, FALSE, "", 0)
            /\ UNCHANGED <<converter_vars, dict_starter_index, cpu_count, py_conv,
                           scan_text, refs_obj, threads, heap, segment_caches, ret,
                           calls, pool, n_calls>>
    IN  Returns(load_dictionary_maxlength(scan_text))

NextLoad == LoadDictionary

SpecLoad == InitLoad /\ [][NextLoad]_vars

---------------------------------------------------------------------------
(* The two merges of a round: UnionCache.get_union merges the slots with   *)
(* StarterUnion.merge_precedence, segment_replace with merge_in_precedence.*)
(* The union is kept in dict_starter_index, segment_replace's merged map   *)
(* in merged_cache.                                                        *)

\* UnionCache.get_union(UnionKey.S2T, indexed=True): the slots st_phrases,
\* st_characters merged, and the starter index built
MergeGetUnion ==
    /\ dict_starter_index = NoIndex
    /\ dict_starter_index' = build_starter_index(merge_precedence(ActiveDicts(ScanRound)),
                                                 ScanRoundMax)
    /\ call' = Call("get_union", <<>>, TRUE, "S2T", 0)
    /\ UNCHANGED <<converter_vars, dictionary, cpu_count, py_conv, scan_text, refs_obj,
                   threads, heap, segment_caches, ret, calls, pool, n_calls>>

\* segment_replace on the s2t round: the fast-path prep fills the caches
MergeSegmentReplace ==
    LET Returns(r) ==
            /\ merged_cache = <<>>
            /\ call' = Call("segment_replace", scan_text, FALSE, "", ScanRoundMax)
            /\ ret' = Ret(r.out, r.segs, <<>>, r.path)
            /\ StoreCaches(r.caches)
            /\ UNCHANGED <<converter_vars, environment, calls, pool, n_calls>>
    IN  Returns(segment_replace(scan_text, ScanRound, ScanRoundMax, Caches, NoIndex,
                                cpu_count))

NextMerge == MergeGetUnion \/ MergeSegmentReplace

SpecMerge == InitScan /\ [][NextMerge]_vars

---------------------------------------------------------------------------
(* segment_replace on a bundle that carries a starter index.  The bundle's *)
(* st_phrases and st_characters are drawn in the initial state, its        *)
(* ts_characters holds a longer key; its "starter_index" is a blob packed  *)
(* from an index of its dictionaries, with any global_cap field.           *)

PreDictPairs == DictsOver(ScanKeys, {<<"x">>}) \X DictsOver(ScanKeys, {<<"x">>})

PreBundle(p, c) ==
    [ScanBundle(p, c) EXCEPT
        !["ts_characters"] = LoadedSlot("ts_characters", (<<"b", "a", "b">> :> <<"y">>))]

\* the dicts of the bundle's slots that hold entries
BundleDicts(d) == ActiveDicts(SlotsOf(d, <<"st_phrases", "st_characters", "ts_characters">>))

\* the global caps with which the bundle's index was built
PreCaps == {1, 2, 3}

\* what try_get_starter_index returns for the bundle
PrebuiltIndexes(d) ==
    {unpack_index_blob(blob) :
        blob \in UNION {BundleBlobs(pack_index_blob(StarterIndexBuild(BundleDicts(d), G))) :
                            G \in PreCaps}}

InitPre ==
    /\ config = "s2t"
    /\ last_error = None
    /\ \E pc \in PreDictPairs : dictionary = PreBundle(pc[1], pc[2])
    /\ scan_text \in ScanTexts
    /\ dict_starter_index \in PrebuiltIndexes(dictionary)
    /\ config_cache = <<>>
    /\ fp_cache = <<>>
    /\ merged_cache = <<>>
    /\ starter_idx_cache = <<>>
    /\ fast_cache = <<>>
    /\ cpu_count = 4
    /\ py_conv = PyOpenCCInit("s2t", TRUE)
    /\ call = Call("init", <<>>, FALSE, "s2t", 0)
    /\ ret = NoRet
    /\ calls = <<>>
    /\ pool = PoolIdle
    /\ refs_obj = DictRefs(NoRound, NoRound, NoRound)
    /\ n_calls = 0
    /\ threads = NoThreads
    /\ heap = NoHeap

NextPre == SegSegmentReplace

SpecPre == InitPre /\ [][NextPre]_vars

---------------------------------------------------------------------------
(* Properties of the scanners and of segment_replace                       *)

\* segment_replace without a starter index (`fast_ok` false): every range
\* goes through the legacy scanner
LegacySegmentReplace(text, dictionaries, max_word_length) ==
    LET ranges == get_split_ranges(text, TRUE)
    IN  IF Len(text) = 0 THEN text
        ELSE IF Len(ranges) = 1 /\ ranges[1] = <<0, Len(text)>>
             THEN convert_segment(text, dictionaries, max_word_length)
             ELSE Join([j \in 1..Len(ranges) |->
                          convert_segment(Slice(text, ranges[j][1], ranges[j][2]),
                                          dictionaries, max_word_length)])

\* the value of key k in the first slot of the round that holds k
RECURSIVE FirstSlotValue(_, _, _)
FirstSlotValue(dictionaries, k, j) ==
    IF k \in DOMAIN dictionaries[j][1].map THEN dictionaries[j][1].map[k]
    ELSE FirstSlotValue(dictionaries, k, j + 1)

\* k is in two slots of the round, with different values
Collides(dictionaries, k) ==
    \E j1, j2 \in 1..Len(dictionaries) :
        /\ j1 < j2
        /\ k \in DOMAIN dictionaries[j1][1].map
        /\ k \in DOMAIN dictionaries[j2][1].map
        /\ dictionaries[j1][1].map[k] # dictionaries[j2][1].map[k]

\* C1: within one round of segment_replace, a key that two slots of the
\* round hold with different values is replaced by the value of the earlier
\* slot, and the merged map built for the round keeps that value
C1_EarlierSlotWins ==
    call.op = "segment_replace" =>
        /\ \A sig \in DOMAIN merged_cache : \A k \in DOMAIN merged_cache[sig] :
               Collides(ScanRound, k) =>
                   merged_cache[sig][k] = FirstSlotValue(ScanRound, k, 1)
        /\ \A j \in 1..Len(ret.segs) : \A q \in 1..Len(ret.segs[j].parts) :
               LET seg == ret.segs[j]
                   part == seg.parts[q]
                   k == Slice(call.text, seg.s + part.i, seg.s + part.i + part.L)
               IN  (part.hit /\ Collides(ScanRound, k)) =>
                       part.s = FirstSlotValue(ScanRound, k, 1)

\* key k of the map equals the segment text starting at position i
MatchesAt(seg, i, k) == i + Len(k) <= Len(seg) /\ Slice(seg, i, i + Len(k)) = k

\* no key longer than L and at most `limit` long matches at i
NoLongerMatch(seg, merged_map, i, L, limit) ==
    \A k \in DOMAIN merged_map :
        ~(Len(k) > L /\ Len(k) <= limit /\ MatchesAt(seg, i, k))

ScanMergedMap == merge_in_precedence(ActiveDicts(ScanRound))

\* the longest-match statement for one call, candidates bounded by `bound`
LongestMatch(seg, parts, merged_map, bound) ==
    \A q \in 1..Len(parts) :
        LET part == parts[q]
            limit == Min2(Len(seg) - part.i, bound)
        IN  NoLongerMatch(seg, merged_map, part.i, IF part.hit THEN part.L ELSE 0, limit)

\* C2 as claimed: whenever convert_segment_indexed replaces a key of length L
\* at position i, no key longer than L and at most min(n - i, global_cap)
\* long matches at i; whenever it copies seg[i], no key of length at most
\* min(n - i, global_cap) matches at i
C2_LongestMatchAsClaimed ==
    call.op = "convert_segment_indexed" =>
        LongestMatch(call.text, ret.segs[1].parts, ScanMergedMap, call.n)

\* C2 as amended: the same for every segment that is not a single delimiter
\* character, with the candidate lengths also bounded by the 64 lengths a
\* mask can hold
C2_LongestMatch ==
    (call.op = "convert_segment_indexed" /\ ~IsTrivialSegment(call.text)) =>
        LongestMatch(call.text, ret.segs[1].parts, ScanMergedMap,
                     Min2(call.n, MASK_BITS))

\* C2 witness: a two-character key was replaced where a one-character key
\* matches too, and a later character was copied
C2_Witness ==
    /\ call.op = "convert_segment_indexed"
    /\ ~IsTrivialSegment(call.text)
    /\ \E q \in 1..Len(ret.segs[1].parts) :
           /\ ret.segs[1].parts[q].hit
           /\ ret.segs[1].parts[q].L = 2
           /\ \E k \in DOMAIN ScanMergedMap :
                  Len(k) = 1 /\ MatchesAt(call.text, ret.segs[1].parts[q].i, k)
    /\ \E q \in 1..Len(ret.segs[1].parts) : ~ret.segs[1].parts[q].hit

\* C3: segment_replace on the indexed path returns what the legacy scanner
\* returns for the same text, slots and max_word_length
C3_IndexedEqualsLegacy ==
    call.op = "segment_replace" =>
        ret.out = LegacySegmentReplace(call.text, ScanRound, call.n)

\* C5: the ranges of get_split_ranges are non-empty, start at 0, end at
\* len(text), each starts where the previous one ends, and the slices
\* text[start:end] concatenate to text, for inclusive true and false
C5_RangesPartitionText ==
    call.op = "get_split_ranges" =>
        LET r == ret.ranges
        IN  /\ \A j \in 1..Len(r) : r[j][1] < r[j][2]
            /\ Len(r) > 0 => (r[1][1] = 0 /\ r[Len(r)][2] = Len(call.text))
            /\ \A j \in 1..(Len(r) - 1) : r[j + 1][1] = r[j][2]
            /\ Join([j \in 1..Len(r) |-> Slice(call.text, r[j][1], r[j][2])]) = call.text

\* C5 witness: an exclusive split of a text that starts with a delimiter
\* run and ends with content
C5_Witness ==
    /\ call.op = "get_split_ranges"
    /\ ~call.flag
    /\ Len(call.text) >= 3
    /\ call.text[1] \in DELIMITERS
    /\ call.text[2] \in DELIMITERS
    /\ call.text[Len(call.text)] \notin DELIMITERS
    /\ Len(ret.ranges) >= 3

---------------------------------------------------------------------------
(* Properties of the parallel path                                         *)

\* the serial path of segment_replace on a converter with empty caches
SerialResult(text, dictionaries, max_word_length, prebuilt) ==
    LET fast == FastPrep(EmptyCaches, dictionaries, max_word_length, prebuilt).fast
        ranges == get_split_ranges(text, TRUE)
    IN  Join([j \in 1..Len(ranges) |->
                 convert_segment_indexed(Slice(text, ranges[j][1], ranges[j][2]),
                                         fast[1], fast[2], fast[3])])

\* C4: what segment_replace returns on the parallel path equals the
\* concatenation of the per-range conversions in range order, whatever
\* order the workers finished in
C4_ParallelEqualsSerial ==
    (call.op = "segment_replace" /\ ret.path = "parallel") =>
        ret.out = SerialResult(call.text, ScanRound, call.n, dict_starter_index)

\* C4 witness: three or more groups, the last group finished first, the
\* groups' results differ and a replacement was made
C4_Witness ==
    /\ call.op = "segment_replace"
    /\ ret.path = "parallel"
    /\ Len(pool.groups) >= 3
    /\ pool.done_order[1] = Len(pool.groups)
    /\ pool.results[1].value # pool.results[Len(pool.groups)].value
    /\ ret.out # call.text

---------------------------------------------------------------------------
(* Properties of DictRefs                                                  *)

NonEmptyList(r) == ~r.none /\ Len(r.slots) > 0

MaxSlotLength(r) == SetMax({r.slots[j][2] : j \in 1..Len(r.slots)})

RefsRound(k) == <<refs_obj.round_1, refs_obj.round_2, refs_obj.round_3>>[k]

\* the elements of a set of round numbers in increasing order
InOrder(S) ==
    [j \in 1..Cardinality(S) |-> CHOOSE k \in S : Cardinality({h \in S : h < k}) = j - 1]

\* the scanner was called exactly once for each round of S, in increasing
\* order, on the output of the previous call (the input text for the first
\* call), with the round's slots and the largest length its slots
\* advertise, and the last output was returned
CallLogMatches(S) ==
    LET ks == InOrder(S)
    IN  /\ Len(calls) = Len(ks)
        /\ \A j \in 1..Len(ks) :
               /\ calls[j].round = ks[j]
               /\ calls[j].text = IF j = 1 THEN call.text ELSE calls[j - 1].out
               /\ calls[j].slots = SlotIds(RefsRound(ks[j]).slots)
               /\ calls[j].max_len = MaxSlotLength(RefsRound(ks[j]))
        /\ ret.out = IF Len(calls) = 0 THEN call.text ELSE calls[Len(calls)].out

\* C6 as claimed: the scanner is called exactly once for each non-empty
\* round, in order, fed the previous output and the round's own maximum
\* length; an absent or empty round is not run
C6_OncePerNonEmptyRound ==
    call.op \in {"core.apply_segment_replace", "dict_refs.apply_segment_replace"} =>
        CallLogMatches({k \in 1..3 : NonEmptyList(RefsRound(k))})

\* C6 as amended: the DictRefs of core.py, given a list as round 1, calls the
\* scanner for round 1 whether it is empty or not and for rounds 2 and 3 when
\* they are non-empty; the DictRefs of dict_refs.py calls it for each
\* non-empty round whose largest advertised slot length is positive; the
\* calls are in round order, each fed the previous output and the round's
\* own maximum length, and a round that is not run stops no later round
C6_RoundsRun ==
    /\ (call.op = "core.apply_segment_replace" /\ ~refs_obj.round_1.none) =>
           CallLogMatches({1} \cup {k \in 2..3 : NonEmptyList(RefsRound(k))})
    /\ call.op = "dict_refs.apply_segment_replace" =>
           CallLogMatches({k \in 1..3 : NonEmptyList(RefsRound(k))
                                          /\ MaxSlotLength(RefsRound(k)) > 0})

\* C6 witness: core.py's DictRefs with an empty round 1, no round 2 and a
\* round 3 that changes the text made two scanner calls
C6_Witness ==
    /\ call.op = "core.apply_segment_replace"
    /\ refs_obj.round_1 = Round(<<>>)
    /\ refs_obj.round_2 = NoRound
    /\ NonEmptyList(refs_obj.round_3)
    /\ Len(calls) = 2
    /\ calls[2].round = 3
    /\ ret.out # call.text

---------------------------------------------------------------------------
(* Properties of the converter                                             *)

\* the table of rounds of the dispatcher section of the specification
SpecTable ==
    [tag \in CONFIG_LIST |->
        CASE tag = "s2t" -> << <<"st_phrases", "st_characters">> >>
          [] tag = "t2s" -> << <<"ts_phrases", "ts_characters">> >>
          [] tag = "s2tw" -> << <<"st_phrases", "st_characters">>, <<"tw_variants">> >>
          [] tag = "tw2s" -> << <<"tw_variants_rev_phrases", "tw_variants_rev">>,
                                <<"ts_phrases", "ts_characters">> >>
          [] tag = "s2twp" -> << <<"st_phrases", "st_characters">>, <<"tw_phrases">>,
                                 <<"tw_variants">> >>
          [] tag = "tw2sp" -> << <<"tw_phrases_rev", "tw_variants_rev_phrases",
                                   "tw_variants_rev">>,
                                 <<"ts_phrases", "ts_characters">> >>
          [] tag = "s2hk" -> << <<"st_phrases", "st_characters">>, <<"hk_variants">> >>
          [] tag = "hk2s" -> << <<"hk_variants_rev_phrases", "hk_variants_rev">>,
                                <<"ts_phrases", "ts_characters">> >>
          [] tag = "t2tw" -> << <<"tw_variants">> >>
          [] tag = "t2twp" -> << <<"tw_phrases">>, <<"tw_variants">> >>
          [] tag = "tw2t" -> << <<"tw_variants_rev_phrases", "tw_variants_rev">> >>
          [] tag = "tw2tp" -> << <<"tw_variants_rev_phrases", "tw_variants_rev">>,
                                 <<"tw_phrases_rev">> >>
          [] tag = "t2hk" -> << <<"hk_variants">> >>
          [] tag = "hk2t" -> << <<"hk_variants_rev_phrases", "hk_variants_rev">> >>
          [] tag = "t2jp" -> << <<"jp_variants">> >>
          [] tag = "jp2t" -> << <<"jps_phrases", "jps_characters", "jp_variants_rev">> >>]

\* the slot names of the rounds a DictRefs holds, round by round
RoundNames(r) ==
    LET present == {k \in 1..3 : ~(<<r.round_1, r.round_2, r.round_3>>[k]).none}
    IN  [j \in 1..Cardinality(present) |->
            SlotIds((<<r.round_1, r.round_2, r.round_3>>[InOrder(present)[j]]).slots)]

\* C7: the rounds the dispatcher has built for a tag are the slot lists of
\* the table, in slot order and round order, and a convert call with that
\* tag hands exactly those rounds to the scanner, in order
C7_DispatcherRounds ==
    /\ \A tag \in DOMAIN config_cache : RoundNames(config_cache[tag]) = SpecTable[tag]
    /\ (call.op = "convert" /\ Len(call.text) > 0) =>
           /\ Len(calls) = Len(SpecTable[call.arg])
           /\ \A j \in 1..Len(calls) :
                  /\ calls[j].round = j
                  /\ calls[j].slots = SpecTable[call.arg][j]
                  /\ calls[j].text = IF j = 1 THEN call.text ELSE calls[j - 1].out

\* C7 witness: a convert call with s2twp ran three rounds and changed the text
C7_Witness ==
    /\ call.op = "convert"
    /\ call.arg = "s2twp"
    /\ "s2twp" \in DOMAIN config_cache
    /\ Len(calls) = 3
    /\ ret.out # call.text

\* the output of the last round of a convert call
RoundsOutput == IF Len(calls) = 0 THEN call.text ELSE calls[Len(calls)].out

HasQuoteOf(text, punct_map) == \E j \in 1..Len(text) : text[j] \in DOMAIN punct_map

\* what convert returns when the quotes are translated after the rounds for
\* the tags of T and for no other tag
PunctuationAppliedFor(T) ==
    (call.op = "convert" /\ Len(call.text) > 0) =>
        ret.out = IF call.flag /\ call.arg \in T
                  THEN translate(RoundsOutput,
                                 IF call.arg \in {"s2t", "s2tw", "s2twp", "s2hk"}
                                 THEN PUNCT_S2T_MAP ELSE PUNCT_T2S_MAP)
                  ELSE RoundsOutput

\* C8 as claimed: with punctuation=true the quote translation is applied
\* after all rounds for every tag but t2jp and jp2t; with punctuation=false
\* never
C8_PunctuationNonJapanese ==
    PunctuationAppliedFor(CONFIG_LIST \ {"t2jp", "jp2t"})

\* C8 as amended: with punctuation=true the quote translation is applied
\* after all rounds for s2t, s2tw, s2twp, s2hk, t2s, tw2s, tw2sp and hk2s
\* and for no other tag (not for t2tw, t2twp, tw2t, tw2tp, t2hk, hk2t, t2jp,
\* jp2t); with punctuation=false never
C8_Punctuation ==
    PunctuationAppliedFor({"s2t", "s2tw", "s2twp", "s2hk", "t2s", "tw2s", "tw2sp", "hk2s"})

\* C8 witness: hk2s with punctuation=true translated a quote of the output
\* of its second round
C8_Witness ==
    /\ call.op = "convert"
    /\ call.flag
    /\ call.arg = "hk2s"
    /\ Len(calls) = 2
    /\ HasQuoteOf(RoundsOutput, PUNCT_T2S_MAP)
    /\ ret.out # RoundsOutput

\* C9: convert on the empty string returns the empty string without
\* raising, runs no round and leaves last_error = "Input text is empty",
\* under every config, in opencc_purepy and in opencc_py
C9_EmptyInput ==
    (call.op \in {"convert", "py.convert"} /\ Len(call.text) = 0) =>
        /\ ret.out = <<>>
        /\ ret.path = "returned"
        /\ calls = <<>>
        /\ (IF call.op = "convert" THEN last_error ELSE py_conv.last_error)
               = "Input text is empty"

\* C9 witness: convert("") on a converter that has converted text before and
\* whose config is jp2t
C9_Witness ==
    /\ call.op = "convert"
    /\ Len(call.text) = 0
    /\ call.arg = "jp2t"
    /\ config_cache # <<>>
    /\ last_error = "Input text is empty"

\* C10: a tag outside the sixteen configs, passed to the constructor (of
\* opencc_purepy or of opencc_py) or to set_config, leaves config = s2t and
\* a last-error message set
C10_UnknownTagSetsError ==
    /\ (call.op = "init" /\ call.arg \notin CONFIG_LIST \cup {None}) =>
           /\ config = "s2t"
           /\ last_error # None
           /\ py_conv.config = "s2t"
           /\ py_conv.last_error # None
    /\ (call.op = "set_config" /\ call.arg \notin CONFIG_LIST) =>
           /\ config = "s2t"
           /\ last_error # None

\* C11 as claimed: on a converter whose bundle failed to load (it holds
\* the default bundle of empty slots), every convert call on non-empty input
\* returns an error string, the recorded last_error, and last_error is set
C11_LoadErrorReturnsError ==
    (call.op = "convert" /\ Len(call.text) > 0 /\ dictionary = DictionaryMaxlengthDefault) =>
        /\ last_error # None
        /\ ret.out = ErrText(last_error)

\* the config of the call uses a slot whose map is None
UsesNoneSlot ==
    \E k \in 1..Len(DictRefsTable(call.arg)) :
        \E j \in 1..Len(DictRefsTable(call.arg)[k]) :
            IsNoneDict(dictionary[DictRefsTable(call.arg)[k][j]][1])

\* C12: convert never lets an exception reach its caller; when a round
\* raises (a slot of the config holds None where a dict is expected) the
\* call returns the diagnostic string "Conversion failed: ..." and
\* last_error equals the returned string
C12_ConvertCatches ==
    (call.op = "convert") =>
        /\ ret.path = "returned"
        /\ (Len(call.text) > 0 /\ UsesNoneSlot) =>
               /\ ret.out = ErrText("Conversion failed: TypeError")
               /\ ret.out = ErrText(last_error)

\* C12 witness: a second round raised after the first had run and cached
\* its entries, and convert returned the diagnostic
C12_Witness ==
    /\ call.op = "convert"
    /\ Len(call.text) > 0
    /\ UsesNoneSlot
    /\ Len(calls) = 2
    /\ fast_cache # <<>>
    /\ ret.out = ErrText("Conversion failed: TypeError")
    /\ last_error = "Conversion failed: TypeError"

\* zho_check as the claim states it: s is the first ZHO_CHECK_CHARS
\* characters left after removing ASCII punctuation, whitespace, Latin
\* letters and digits; 1 if some character of s is a key of ts_characters
\* mapped to another character, else 2 if some character of s is such a key
\* of st_characters, else 0
ClaimedZhoCheck(text, d) ==
    LET Changes(s, slot) ==
            \E j \in 1..Len(s) :
                /\ <<s[j]>> \in DOMAIN d[slot][1].map
                /\ d[slot][1].map[<<s[j]>>] # <<s[j]>>
        Verdict(s) == IF Changes(s, "ts_characters") THEN 1
                      ELSE IF Changes(s, "st_characters") THEN 2
                      ELSE 0
    IN  Verdict(Prefix(StripSub(PY_STRIP_REGEX, text), ZHO_CHECK_CHARS))

\* C13 as claimed: zho_check of opencc_purepy and of opencc_py return the
\* verdict on the first 100 characters that are not ASCII punctuation,
\* whitespace, Latin letters or digits (1 if ts changes them, else 2 if st
\* changes them, else 0), so that later characters never matter
C13_ZhoCheckFirst100 ==
    (call.op \in {"zho_check", "py.zho_check"}) =>
        ret.out = <<ClaimedZhoCheck(call.text, dictionary)>>

\* C14 as claimed: when a slot of the round advertises a maximum length
\* above 64, segment_replace holds no starter index for the round (the build
\* counts as failed) and returns what the legacy scanner returns, keys
\* longer than 64 included
C14_LongSlotUsesLegacy ==
    (/\ call.op = "segment_replace"
     /\ Len(call.text) > 0
     /\ \E j \in 1..Len(ScanRound) : ScanRound[j][2] > MASK_BITS) =>
        /\ \A key \in DOMAIN fast_cache : fast_cache[key][2] = NoIndex
        /\ ret.out = LegacySegmentReplace(call.text, ScanRound, call.n)

\* the parts cover the source segment from 0 to its end, each starting where
\* the previous one's source span ends
PartsTile(seg, parts) ==
    /\ \A q \in 1..Len(parts) :
           parts[q].i = IF q = 1 THEN 0 ELSE parts[q - 1].i + parts[q - 1].L
    /\ Len(parts) > 0 => parts[Len(parts)].i + parts[Len(parts)].L = Len(seg)

\* part.s is the round's value for the source span the part consumed, or the
\* span itself when nothing matched
PartVerbatim(seg, part) ==
    IF part.hit
    THEN \E j \in 1..Len(ScanRound) :
             /\ Slice(seg, part.i, part.i + part.L) \in DOMAIN ScanRound[j][1].map
             /\ part.s = ScanRound[j][1].map[Slice(seg, part.i, part.i + part.L)]
    ELSE part.s = Slice(seg, part.i, part.i + part.L)

\* k occurs in s as a contiguous run
Occurs(k, s) == \E i \in 0..(Len(s) - Len(k)) : MatchesAt(s, i, k)

\* C15: in convert_segment_indexed and in convert_segment the output is the
\* concatenation, in source order, of one piece per scanning step; the steps'
\* source spans follow one another without gap or overlap (after a match of
\* length L at i the next step starts at i + L); the piece of a match is the
\* round's replacement for the matched span, verbatim, and the piece of a
\* step without match is the source character; so no replacement is matched
\* again in the round
C15_NoRescan ==
    (call.op \in {"convert_segment_indexed", "convert_segment"}) =>
        /\ PartsTile(call.text, ret.segs[1].parts)
        /\ \A q \in 1..Len(ret.segs[1].parts) :
               PartVerbatim(call.text, ret.segs[1].parts[q])
        /\ ret.out = Join([q \in 1..Len(ret.segs[1].parts) |-> ret.segs[1].parts[q].s])

\* C15 witness: a match of length 2 was replaced by text in which a key of
\* the round occurs, and scanning went on after it
C15_Witness ==
    /\ call.op \in {"convert_segment_indexed", "convert_segment"}
    /\ \E q \in 1..Len(ret.segs[1].parts) :
           /\ ret.segs[1].parts[q].hit
           /\ ret.segs[1].parts[q].L = 2
           /\ \E k \in DOMAIN ScanMergedMap : Occurs(k, ret.segs[1].parts[q].s)
           /\ q < Len(ret.segs[1].parts)

\* what convert returns for the input when no other call is running
AloneResult(input_text) ==
    convert(input_text, FALSE, config, None, <<>>, dictionary, EmptyCaches,
            dict_starter_index, cpu_count).out

\* C16 as claimed: of two convert calls running concurrently on one
\* converter, each returns what it returns when it runs alone, whatever the
\* order of their accesses to the shared caches
C16_ConcurrentAsAlone ==
    \A t \in ConcThreads :
        threads[t].pc = "done" => threads[t].result = AloneResult(threads[t].input)

\* the end positions of the ranges
RangeEnds(ranges) == {ranges[j][2] : j \in 1..Len(ranges)}

\* C17 as claimed: with inclusive=true no range ends inside a run of
\* consecutive delimiters (a range that ends with a delimiter is not followed
\* by a delimiter)
C17_DelimiterRunsKept ==
    (call.op = "get_split_ranges" /\ call.flag) =>
        \A e \in RangeEnds(ret.ranges) :
            ~(/\ 0 < e
              /\ e < Len(call.text)
              /\ call.text[e] \in DELIMITERS
              /\ call.text[e + 1] \in DELIMITERS)

\* C17 as amended: with inclusive=true a range ends right after every
\* delimiter character and at the end of the text, and nowhere else; so a
\* range holds at most one delimiter, its last character, and of a run of n
\* delimiters the first closes the range of the content before it and each
\* of the others is a range of its own
C17_EveryDelimiterEndsRange ==
    (call.op = "get_split_ranges" /\ call.flag) =>
        /\ RangeEnds(ret.ranges) =
               {p \in 1..Len(call.text) : call.text[p] \in DELIMITERS \/ p = Len(call.text)}
        /\ \A j \in 1..Len(ret.ranges) :
               \A p \in (ret.ranges[j][1] + 1)..(ret.ranges[j][2] - 1) :
                   call.text[p] \notin DELIMITERS

\* C17 witness: content followed by a run of two delimiters, the second of
\* which is a range of its own
C17_Witness ==
    /\ call.op = "get_split_ranges"
    /\ call.flag
    /\ \E j \in 1..(Len(ret.ranges) - 1) :
           /\ ret.ranges[j][2] - ret.ranges[j][1] >= 2
           /\ call.text[ret.ranges[j][2]] \in DELIMITERS
           /\ ret.ranges[j + 1][2] = ret.ranges[j + 1][1] + 1
           /\ call.text[ret.ranges[j + 1][2]] \in DELIMITERS


---------------------------------------------------------------------------
(* Properties of the starter index                                         *)

\* the codepoints of the model's characters, BMP and astral
IdxStarters == {Ord[c] : c \in Chars}

IdxRoundKeys == UNION {DOMAIN ActiveDicts(ScanRound)[j] : j \in 1..Len(ActiveDicts(ScanRound))}

\* the lengths of the keys of the round that start with cp
KeyLengths(cp) ==
    {Len(k) : k \in {x \in IdxRoundKeys : Len(x) >= 1 /\ Ord[x[1]] = cp}}

\* some key of the round starts with cp and has length exactly L
HasKey(cp, L) == L \in KeyLengths(cp)

\* bit L-1 of the mask of every starter is set exactly for the lengths L,
\* 1 <= L <= top, of the keys with that starter, and a starter with no
\* such key has mask 0 and cap 0
MaskBitsUpTo(top) ==
    \A cp \in IdxStarters :
        /\ get_mask_cap(dict_starter_index, cp)[1]
               = {L - 1 : L \in KeyLengths(cp) \cap 1..top}
        /\ (KeyLengths(cp) \cap 1..top = {})
               => get_mask_cap(dict_starter_index, cp) = <<{}, 0>>

C19_GlobalCapBoundsCaps ==
    call.op \in {"StarterIndex.build", "unpack_index_blob"} =>
        /\ dict_starter_index.global_cap \in 1..MASK_BITS
        /\ \A cp \in IdxStarters :
               get_mask_cap(dict_starter_index, cp)[2] <= dict_starter_index.global_cap

\* C20: when StarterIndex.build meets a key longer than the global cap G,
\* it sets bit G-1 for the key's starter, sets no bit at position G or
\* above, and the starter's cap is at least the key's length
C20_LongKeyClamped ==
    call.op = "StarterIndex.build" =>
        \A cp \in IdxStarters :
            /\ \A b \in get_mask_cap(dict_starter_index, cp)[1] :
                   b < dict_starter_index.global_cap
            /\ \A L \in KeyLengths(cp) :
                   L > dict_starter_index.global_cap =>
                       /\ (dict_starter_index.global_cap - 1)
                              \in get_mask_cap(dict_starter_index, cp)[1]
                       /\ get_mask_cap(dict_starter_index, cp)[2] >= L

---------------------------------------------------------------------------
(* Properties of the grouping of the parallel path                         *)

\* groups are at most G contiguous slices of R, each of at most ceil(|R|/G)
\* ranges, in the order of R and covering R exactly once
GroupsPartition(R, G, groups) ==
    /\ Len(groups) <= G
    /\ \A g \in 1..Len(groups) : Len(groups[g]) <= (Len(R) + G - 1) \div G
    /\ Join(groups) = R

\* C21: on the parallel path segment_replace splits the range list R into
\* at most G = min(4, cpu_count) groups, each a contiguous slice of R of at
\* most ceil(|R|/G) ranges, in the order of R and covering R exactly once,
\* and hands one task per group to the workers
C21_GroupsPartitionRanges ==
    pool.phase = "map" =>
        /\ GroupsPartition(get_split_ranges(pool.text, TRUE), GroupCount(cpu_count),
                           pool.groups)
        /\ Len(pool.task) = Len(pool.groups)

\* five ranges on four or more cpus: three groups of sizes 2, 2 and 1
C21_Witness ==
    /\ pool.phase = "map"
    /\ GroupCount(cpu_count) = MAX_GROUPS
    /\ Len(get_split_ranges(pool.text, TRUE)) = 5
    /\ Len(pool.groups) = 3
    /\ Len(pool.groups[3]) = 1

---------------------------------------------------------------------------
(* Properties of the caches of segment_replace                             *)

\* the triple segment_replace takes for a round with the caches as they are
StoredTriple(dictionaries, max_word_length) ==
    FastPrep(Caches, dictionaries, max_word_length, dict_starter_index).fast

\* the triple a build on empty caches gives for the round
FreshTriple(dictionaries, max_word_length) ==
    FastPrep(EmptyCaches, dictionaries, max_word_length, dict_starter_index).fast

\* C22: after segment_replace has run a round, the triple (merged map,
\* starter index, cap) stored for that round equals what a fresh build
\* from the round's slots and cap produces
C22_StoredTripleIsFresh ==
    (call.op = "segment_replace" /\ ret.path # "empty") =>
        StoredTriple(refs_obj.round_1.slots, call.n)
            = FreshTriple(refs_obj.round_1.slots, call.n)

\* C23: try_get_starter_index returns no index for a blob whose schema
\* field is not 1, and for a blob of schema 1 the index of its known
\* fields, whatever extra fields it has
C23_SchemaMismatchGivesNoIndex ==
    call.op = "try_get_starter_index" =>
        IF call.arg = "schema 1"
        THEN dict_starter_index = StarterIndexBuild(ActiveDicts(ScanRound), call.n)
        ELSE dict_starter_index = NoIndex

---------------------------------------------------------------------------
(* Properties of load_dictionary_maxlength                                 *)

\* the part of a line before its first TAB, and the part after it
BeforeTab(line) == Pieces(line, {"TAB"}, 1, <<>>)[1]
AfterTab(line) == SubSeq(line, Len(BeforeTab(line)) + 2, Len(line))

\* a line that is not empty, does not begin with '#', and has a TAB with a
\* key before it and a value after it
WellFormedLine(line) ==
    /\ Len(line) > 0
    /\ line[1] # "#"
    /\ "TAB" \in {line[j] : j \in 1..Len(line)}
    /\ Len(Strip(BeforeTab(line))) > 0
    /\ Len(split(AfterTab(line))) > 0

\* one entry per well-formed line: its key, and the first token of its
\* value field
RECURSIVE EntriesOfLines(_, _)
EntriesOfLines(lines, j) ==
    IF j > Len(lines) THEN EmptyDict
    ELSE IF WellFormedLine(lines[j])
         THEN EntriesOfLines(lines, j + 1)
              @@ (Strip(BeforeTab(lines[j])) :> split(AfterTab(lines[j]))[1])
         ELSE EntriesOfLines(lines, j + 1)

\* C24: load_dictionary_maxlength adds no entry for a line that is empty
\* or begins with '#', skips a line with no TAB, an empty key or an empty
\* value, and loads exactly one entry per well-formed key<TAB>value line,
\* the first token of the value field as the replacement; the returned
\* length is that of the longest loaded key
C24_LoadsWellFormedLines ==
    call.op = "load_dictionary_maxlength" =>
        /\ dictionary["st_characters"][1].map
               = EntriesOfLines(Pieces(call.text, {"NL"}, 1, <<>>), 1)
        /\ DOMAIN dictionary["st_characters"][1].map # {} =>
               dictionary["st_characters"][2]
                   = SetMax({Len(k) : k \in DOMAIN dictionary["st_characters"][1].map})

---------------------------------------------------------------------------
(* Properties of the merges                                                *)

\* C25: StarterUnion.merge_precedence and merge_in_precedence give the
\* same merged map for the same ordered slots: the map of the union of
\* the round equals the merged map segment_replace caches for the round
C25_MergesAgree ==
    (dict_starter_index # NoIndex /\ merged_cache # <<>>) =>
        \A sig \in DOMAIN merged_cache :
            merged_cache[sig] = dict_starter_index.merged_map

---------------------------------------------------------------------------
(* Properties of the reuse of the bundle's index                           *)

\* the bundle's index suffices for the round of the last call
PrebuiltSuffices ==
    /\ call.op = "segment_replace"
    /\ ret.path # "empty"
    /\ dict_starter_index # NoIndex
    /\ dict_starter_index.global_cap >= GlobalCap(ScanRound, call.n)

\* for every key of the round's merged map within the cap, idx has the bit
\* of the key's length set for its starter, and a cap at least that length
Covers(idx, dictionaries, max_word_length) ==
    \A k \in DOMAIN merge_in_precedence(ActiveDicts(dictionaries)) :
        (1 <= Len(k) /\ Len(k) <= GlobalCap(dictionaries, max_word_length)) =>
            /\ (Len(k) - 1) \in get_mask_cap(idx, Ord[k[1]])[1]
            /\ get_mask_cap(idx, Ord[k[1]])[2] >= Len(k)

\* the bundle's index is what StarterIndex.build gives for the bundle's
\* dictionaries and the index's global_cap
BuiltFromBundle ==
    dict_starter_index = StarterIndexBuild(BundleDicts(dictionary),
                                           dict_starter_index.global_cap)

\* segment_replace with an index built from the round's own slots
OwnIndexOutput ==
    segment_replace(call.text, ScanRound, call.n, EmptyCaches, NoIndex, cpu_count).out

\* the index of the triple the last call took
UsedIndex == StoredTriple(ScanRound, call.n)[2]

---------------------------------------------------------------------------
(* Properties of the ranges of segment_replace                             *)

\* segment_replace of one range of the text, as a call of its own
RangeAlone(text, range) ==
    segment_replace(Slice(text, range[1], range[2]), ScanRound, ScanRoundMax,
                    EmptyCaches, dict_starter_index, cpu_count).out

\* the output is the concatenation of the conversions of the ranges, each
\* converted on its own, and a range that is one delimiter is emitted as is
RangesIndependent(text, ranges, out, segs) ==
    /\ Len(ranges) > 1
    /\ out = Join([j \in 1..Len(ranges) |-> RangeAlone(text, ranges[j])])
    /\ \A j \in 1..Len(ranges) :
           (ranges[j][2] = ranges[j][1] + 1 /\ text[ranges[j][2]] \in DELIMITERS) =>
               PartsText(segs[j].parts) = <<text[ranges[j][2]]>>

\* C27: when the text splits into more than one range, the output of
\* segment_replace is the concatenation of the independent conversions of
\* the ranges, so no replacement spans a range boundary, and a range that
\* is a single delimiter character is emitted unchanged even if it is a key
C27_NoReplacementAcrossRanges ==
    (call.op = "segment_replace" /\ ret.path \in {"serial", "parallel"}) =>
        RangesIndependent(call.text, get_split_ranges(call.text, TRUE), ret.out, ret.segs)

\* the text is a key that begins with a delimiter, and the delimiter is a
\* key too: the text splits after the delimiter and comes back unreplaced
C27_Witness ==
    /\ call.op = "segment_replace"
    /\ ret.path = "serial"
    /\ call.text \in DOMAIN ScanMergedMap
    /\ <<call.text[1]>> \in DOMAIN ScanMergedMap
    /\ call.text[1] \in DELIMITERS
    /\ ret.out = call.text

---------------------------------------------------------------------------
(* Progress of the scanners                                                *)

\* every step consumes at least one character and stays inside the segment:
\* a copy consumes one character, a match the length of its key
StepAdvances(seg, part) ==
    /\ part.L >= 1
    /\ part.i + part.L <= Len(seg)
    /\ ~part.hit => part.L = 1
    /\ part.hit => Slice(seg, part.i, part.i + part.L) \in DOMAIN ScanMergedMap

\* C28: both scanners end on every segment: each step advances the position
\* by at least 1 (by the length of the matched key, or by 1 for a copied
\* character), the position never exceeds the length of the segment, and
\* every source position is covered by exactly one emitted item
C28_ScannersAdvance ==
    (call.op \in {"convert_segment_indexed", "convert_segment"}) =>
        /\ \A q \in 1..Len(ret.segs[1].parts) : StepAdvances(call.text, ret.segs[1].parts[q])
        /\ \A q \in 1..(Len(ret.segs[1].parts) - 1) :
               ret.segs[1].parts[q + 1].i
                   = ret.segs[1].parts[q].i + ret.segs[1].parts[q].L
        /\ Len(call.text) > 0 =>
               /\ ret.segs[1].parts[1].i = 0
               /\ ret.segs[1].parts[Len(ret.segs[1].parts)].i
                      + ret.segs[1].parts[Len(ret.segs[1].parts)].L = Len(call.text)

\* the legacy scanner made a copy step and then a match step of length 2
\* that ends the segment
C28_Witness ==
    /\ call.op = "convert_segment"
    /\ Len(ret.segs[1].parts) = 2
    /\ ~ret.segs[1].parts[1].hit
    /\ ret.segs[1].parts[2].hit
    /\ ret.segs[1].parts[2].L = 2
    /\ Len(call.text) = 3

---------------------------------------------------------------------------
(* The config tag and the recorded error across calls                      *)

\* the converter holds one of the sixteen tags, and a convert call on
\* non-empty input ran under such a tag and did not return the
\* "Invalid config" message of its else branch
ConfigIsTag ==
    /\ config \in CONFIG_LIST
    /\ (call.op = "convert" /\ Len(call.text) > 0) =>
           /\ call.arg \in CONFIG_LIST
           /\ ret.out # ErrText("Invalid config: " \o call.arg)

\* a step that is set_config with one of the sixteen tags
ValidSetConfigStep ==
    /\ call'.op = "set_config"
    /\ call'.arg \in CONFIG_LIST

\* set_config with a valid tag stores the tag and writes nothing else of
\* the converter
SetConfigWritesOnlyConfig ==
    ValidSetConfigStep =>
        /\ config' = call'.arg
        /\ UNCHANGED <<last_error, config_cache, segment_caches, dictionary,
                       dict_starter_index>>

\* C29: after any sequence of constructor, set_config and convert calls the
\* config is one of the sixteen tags of CONFIG_LIST, so convert on non-empty
\* input never takes its "Invalid config" branch; and set_config with a valid
\* tag changes config only: last_error and every cache stay as they were
C29_ConfigStaysValid ==
    /\ []ConfigIsTag
    /\ [][SetConfigWritesOnlyConfig]_vars

\* C29 witness: set_config("jp2t") on a converter that recorded an unknown
\* tag earlier and has converted text since: the message and the caches are
\* still there
C29_Witness ==
    /\ call.op = "set_config"
    /\ call.arg = "jp2t"
    /\ config = "jp2t"
    /\ last_error = "Invalid config: xyz"
    /\ config_cache # <<>>
    /\ fast_cache # <<>>

\* the messages convert returns instead of a conversion
ConvertDiagnostics(cfg) ==
    {ErrText("Conversion failed: TypeError"), ErrText("Invalid config: " \o cfg)}

\* a step that is a convert call on non-empty input returning a conversion
SuccessfulConvertStep ==
    /\ call'.op = "convert"
    /\ Len(call'.text) > 0
    /\ ret'.out \notin ConvertDiagnostics(call'.arg)

\* a step that records an error: set_config with an unknown tag, convert on
\* empty input, or a convert that returns the diagnostic it recorded
ErrorStep ==
    \/ /\ call'.op = "set_config"
       /\ call'.arg \notin CONFIG_LIST
       /\ last_error' = "Invalid config: " \o call'.arg
    \/ /\ call'.op = "convert"
       /\ Len(call'.text) = 0
       /\ last_error' = "Input text is empty"
    \/ /\ call'.op = "convert"
       /\ Len(call'.text) > 0
       /\ ret'.out = ErrText(last_error')
       /\ ret'.out \in ConvertDiagnostics(call'.arg)

LastErrorKept ==
    /\ SuccessfulConvertStep => last_error' = last_error
    /\ ValidSetConfigStep => last_error' = last_error
    /\ last_error # None => last_error' # None
    /\ last_error' # last_error => ErrorStep

\* C30: last_error is sticky: a convert that succeeds on non-empty input and
\* a set_config with a valid tag leave last_error as it was, so a recorded
\* message stays readable through get_last_error() after later successful
\* calls, and changes only when another error is recorded
C30_LastErrorSticky == [][LastErrorKept]_vars

\* C30 witness: set_config("xyz") recorded its message, set_config("t2s")
\* followed, and a convert on non-empty input has succeeded under t2s on a
\* bundle with a slot that makes other configs fail: the message of the
\* unknown tag is still the recorded error
C30_Witness ==
    /\ call.op = "convert"
    /\ call.arg = "t2s"
    /\ Len(call.text) > 0
    /\ ~UsesNoneSlot
    /\ ret.out \notin ConvertDiagnostics(call.arg)
    /\ config_cache # <<>>
    /\ last_error = "Invalid config: xyz"

=========================================================================
